---- MODULE Spec2Model ----
(***************************************************************************)
(* A committee of PBFT nodes (one-node-committee): each node is a          *)
(* CommitteeNode owning a PBFTEngine; nodes exchange PrePrepare, Prepare,  *)
(* Commit, SupplementaryReady and SupplementaryAck messages over one FIFO  *)
(* connection per ordered pair of peers.  A node is a single-threaded      *)
(* event loop, so every handler (proof ingestion, message receipt, timer)  *)
(* is one atomic step.                                                     *)
(***************************************************************************)
EXTENDS Integers, Sequences, FiniteSets, TLC

VARIABLES
    node,     \* node id -> the CommitteeNode (and its PBFTEngine) fields
    chan,     \* <<from, to>> -> messages in flight on that connection, FIFO
    feed      \* node id -> proofs the verifiers have yet to submit to it

vars == <<node, chan, feed>>

\* ---------------------------------------------------------------- bounds

\* Sequence numbers the model follows (the leader starts at most this many rounds).
MaxSeq == 2

\* ----------------------------------------------------------- enumerations

\* ConsensusState
Idle == 0
PrePrepared == 1
Prepared == 2
Committed == 3

LeaderId == "leader"
Committee4 == {"leader", "f1", "f2", "f3"}
Committee7 == Committee4 \cup {"f4", "f5", "f6"}

Tasks == {"A", "B"}
NoTask == "null"

Keys == {0} \X (0 .. MaxSeq)

\* A QoSProof with the fields the validator and the pipeline read.  ok is the
\* outcome of the checks of quickValidate, which look at the proof alone.
\* mediaSpecs: codec, resolution (width, height), bitrate, hasAudio;
\* videoQualityData: overallScore, gopScores (GOP timestamp -> score string);
\* audioQualityData is optional: audioScore is <<>> or <<overallScore>>.
QoSProof(t, v, c, good, resolution, bitrate, hasAudio, overallScore, gopScores, audioScore) ==
    [taskId |-> t, verifierId |-> v, codec |-> c, ok |-> good,
     id |-> "", supplementaryInfo |-> <<>>,
     resolution |-> resolution, bitrate |-> bitrate, hasAudio |-> hasAudio,
     overallScore |-> overallScore, gopScores |-> gopScores,
     audioScore |-> audioScore]

\* The proof of the test suites (1920x1080, bitrate 5000, audio), in which
\* verifiers differ in the codec only.
Proof(t, v, c, good) ==
    QoSProof(t, v, c, good, <<1920, 1080>>, 5000, TRUE, 85,
             [g \in {"0"} |-> "86"], <<90>>)

\* ------------------------------------------------------------- validator

\* quickValidate that lets every proof pass.
quickValidate_AcceptsAll(p) == TRUE

quickValidate(p) == p.ok

Codecs(proofs) == {proofs[i].codec : i \in 1 .. Len(proofs)}

RECURSIVE Sum(_)
Sum(numbers) ==
    IF numbers = <<>> THEN 0 ELSE Head(numbers) + Sum(Tail(numbers))

Abs(x) == IF x < 0 THEN -x ELSE x

ConflictResult(reason) == [isValid |-> FALSE, hasConflict |-> TRUE, reason |-> reason]

ValidResult == [isValid |-> TRUE, hasConflict |-> FALSE, reason |-> ""]

\* maxDeviation = avgBitrate * 0.05
BitrateTolerancePercent == 5

\* hasBitrateConflict that also rejects a deviation of exactly 5%.
hasBitrateConflict_Inclusive(proofs) ==
    LET bitrates == [i \in 1 .. Len(proofs) |-> proofs[i].bitrate]
        n == Len(bitrates)
    IN \E i \in 1 .. n :
           100 * Abs(n * bitrates[i] - Sum(bitrates)) >=
               BitrateTolerancePercent * Sum(bitrates)

\* hasBitrateConflict: some bitrate is further than 5% of the average from
\* the average.  |br - sum/n| > (sum/n) * 5/100, cleared of fractions.
hasBitrateConflict(proofs) ==
    LET bitrates == [i \in 1 .. Len(proofs) |-> proofs[i].bitrate]
        n == Len(bitrates)
    IN \E i \in 1 .. n :
           100 * Abs(n * bitrates[i] - Sum(bitrates)) >
               BitrateTolerancePercent * Sum(bitrates)

validateMediaSpecsConsistency(proofs) ==
    IF Cardinality(Codecs(proofs)) > 1 THEN ConflictResult("codec")
    ELSE IF Cardinality({proofs[i].resolution : i \in 1 .. Len(proofs)}) > 1
    THEN ConflictResult("resolution")
    ELSE IF hasBitrateConflict(proofs) THEN ConflictResult("bitrate")
    ELSE IF Cardinality({proofs[i].hasAudio : i \in 1 .. Len(proofs)}) > 1
    THEN ConflictResult("hasAudio")
    ELSE ValidResult

SCORE_THRESHOLD == 3

\* parseFloat on the score strings in use.
parseFloat(score) == CASE score = "86" -> 86 [] score = "87" -> 87

\* The GOP timestamps of the first proof that every proof has.
findCommonGopTimestamps(proofs) ==
    {g \in DOMAIN proofs[1].gopScores :
        \A i \in 1 .. Len(proofs) : g \in DOMAIN proofs[i].gopScores}

validateVideoQualityConsistency(proofs) ==
    LET scores == [i \in 1 .. Len(proofs) |-> proofs[i].overallScore]
        n == Len(scores)
    IN IF \E i \in 1 .. n : Abs(n * scores[i] - Sum(scores)) > SCORE_THRESHOLD * n
       THEN ConflictResult("score")
       ELSE IF \E g \in findCommonGopTimestamps(proofs) :
                   \E i \in 1 .. n : parseFloat(proofs[i].gopScores[g]) #
                                         parseFloat(proofs[1].gopScores[g])
       THEN ConflictResult("gop")
       ELSE ValidResult

validateAudioConsistency(proofs) ==
    IF ~proofs[1].hasAudio
    THEN IF \A i \in 1 .. Len(proofs) : ~proofs[i].hasAudio THEN ValidResult
         ELSE ConflictResult("audioPresence")
    ELSE IF \E i \in 1 .. Len(proofs) : proofs[i].audioScore = <<>>
    THEN ConflictResult("audioMissing")
    ELSE IF \E i \in 1 .. Len(proofs) : proofs[i].audioScore # proofs[1].audioScore
    THEN ConflictResult("audioScore")
    ELSE ValidResult

deepValidate(proofs) ==
    IF Len(proofs) < 2
    THEN [isValid |-> FALSE, hasConflict |-> FALSE, reason |-> "insufficient"]
    ELSE IF ~validateMediaSpecsConsistency(proofs).isValid
    THEN validateMediaSpecsConsistency(proofs)
    ELSE IF ~validateVideoQualityConsistency(proofs).isValid
    THEN validateVideoQualityConsistency(proofs)
    ELSE validateAudioConsistency(proofs)

analyzeConflictType(result) ==
    IF ~result.hasConflict THEN "none"
    ELSE IF result.reason \in {"codec", "resolution", "gop", "hasAudio", "audioScore"}
    THEN "structural"
    ELSE IF result.reason \in {"score", "bitrate"} THEN "score"
    ELSE "structural"

CountOf(proofs, c) == Cardinality({i \in 1 .. Len(proofs) : proofs[i].codec = c})

\* The value with strictly the most occurrences, in first-occurrence order.
MajorityIndex(proofs) ==
    CHOOSE i \in 1 .. Len(proofs) :
        /\ \A j \in 1 .. Len(proofs) :
               CountOf(proofs, proofs[j].codec) <= CountOf(proofs, proofs[i].codec)
        /\ \A j \in 1 .. (i - 1) :
               CountOf(proofs, proofs[j].codec) < CountOf(proofs, proofs[i].codec)

\* The verifier ids of the proofs whose codec is (agrees = TRUE) or is not
\* (agrees = FALSE) the codec c, in the order of the proofs.
VerifiersOf(proofs, c, agrees) ==
    LET picked == SelectSeq(proofs, LAMBDA p : (p.codec = c) = agrees)
    IN [i \in 1 .. Len(picked) |-> picked[i].verifierId]

\* resolveStructuralConflict asking for a unanimous codec instead of a majority.
resolveStructuralConflict_Unanimous(proofs, reason) ==
    IF reason = "codec" /\ Len(proofs) > 0 /\ Cardinality(Codecs(proofs)) = 1
    THEN [isValid |-> TRUE, needsManualReview |-> FALSE,
          resolvedBy |-> "majority", majorityValue |-> proofs[1].codec,
          reliableVerifiers |-> [i \in 1 .. Len(proofs) |-> proofs[i].verifierId],
          unreliableVerifiers |-> <<>>]
    ELSE [isValid |-> FALSE, needsManualReview |-> TRUE, resolvedBy |-> "manual",
          majorityValue |-> "", reliableVerifiers |-> <<>>,
          unreliableVerifiers |-> <<>>]

resolveStructuralConflict(proofs, reason) ==
    IF reason # "codec" \/ Len(proofs) = 0
    THEN [isValid |-> FALSE, needsManualReview |-> TRUE, resolvedBy |-> "manual",
          majorityValue |-> "", reliableVerifiers |-> <<>>,
          unreliableVerifiers |-> <<>>]
    ELSE LET c == proofs[MajorityIndex(proofs)].codec
         IN IF CountOf(proofs, c) >= 2
            THEN [isValid |-> TRUE, needsManualReview |-> FALSE,
                  resolvedBy |-> "majority", majorityValue |-> c,
                  reliableVerifiers |-> VerifiersOf(proofs, c, TRUE),
                  unreliableVerifiers |-> VerifiersOf(proofs, c, FALSE)]
            ELSE [isValid |-> FALSE, needsManualReview |-> TRUE,
                  resolvedBy |-> "manual", majorityValue |-> "",
                  reliableVerifiers |-> <<>>, unreliableVerifiers |-> <<>>]

\* The merge of originalProofs and supplementaryProof is commented out in the
\* source: supplementaryProof is not read, and only originalProofs is tallied.
resolveWithSupplementaryProof(originalProofs, supplementaryProof, conflictType, reason) ==
    IF conflictType = "structural"
    THEN resolveStructuralConflict(originalProofs, reason)
    ELSE [isValid |-> FALSE, needsManualReview |-> TRUE, resolvedBy |-> "manual",
          majorityValue |-> "", reliableVerifiers |-> <<>>,
          unreliableVerifiers |-> <<>>]

\* ------------------------------------------------------------- utilities

calculateHash(d) ==
    <<"sha", d.taskId, d.verifierId, d.codec, d.ok, d.id, d.supplementaryInfo>>

Senders(msgs) == {msgs[i].nodeId : i \in 1 .. Len(msgs)}

RECURSIVE AppendNew(_, _)
\* msgs, followed by those of pending whose sender is not yet in it, in order.
AppendNew(msgs, pending) ==
    IF pending = <<>> THEN msgs
    ELSE AppendNew(IF Head(pending).nodeId \in Senders(msgs) THEN msgs
                   ELSE Append(msgs, Head(pending)),
                   Tail(pending))

\* ------------------------------------------------------------ PBFTEngine
\* An operator of the engine or of the pipeline takes the node's fields s and
\* gives them back changed; s.ret is the value the method returns (<<>> for
\* null, <<m>> for a message), s.out the messages handed to the transport.

\* A threshold of f+1 in place of 2f+1.
consensusThreshold_Minority(totalNodes) == ((totalNodes - 1) \div 3) + 1

consensusThreshold(totalNodes) == 2 * ((totalNodes - 1) \div 3) + 1

Msg(type, ctype, view, seq, from, task, digest, data) ==
    [type |-> type, consensusType |-> ctype, viewNumber |-> view,
     sequenceNumber |-> seq, nodeId |-> from, taskId |-> task,
     digest |-> digest, data |-> data]

KeyOf(m) == <<m.viewNumber, m.sequenceNumber>>

validateMessage(s, m) == m.viewNumber = s.viewNumber

\* startConsensus without its check that the node is the leader.
startConsensus_AnyNode(s, proof, consensusType) ==
    IF s.state # Idle THEN [s EXCEPT !.ret = <<>>]
    ELSE LET seq == s.sequenceNumber + 1
             prePrepareMsg == Msg("prePrepare", consensusType, s.viewNumber, seq,
                                  s.nodeId, proof.taskId, calculateHash(proof),
                                  <<proof>>)
         IN [s EXCEPT !.sequenceNumber = seq,
                      !.currentProposal = <<proof>>,
                      !.currentDigest = calculateHash(proof),
                      !.currentConsensusType = consensusType,
                      !.state = PrePrepared,
                      !.issued = Append(@, [seq |-> seq, taskId |-> proof.taskId]),
                      !.ret = <<prePrepareMsg>>]

\* startConsensus without its check that the engine is idle.
startConsensus_Busy(s, proof, consensusType) ==
    IF ~s.isLeader THEN [s EXCEPT !.ret = <<>>]
    ELSE LET seq == s.sequenceNumber + 1
             prePrepareMsg == Msg("prePrepare", consensusType, s.viewNumber, seq,
                                  s.nodeId, proof.taskId, calculateHash(proof),
                                  <<proof>>)
         IN [s EXCEPT !.sequenceNumber = seq,
                      !.currentProposal = <<proof>>,
                      !.currentDigest = calculateHash(proof),
                      !.currentConsensusType = consensusType,
                      !.state = PrePrepared,
                      !.issued = Append(@, [seq |-> seq, taskId |-> proof.taskId]),
                      !.ret = <<prePrepareMsg>>]

startConsensus(s, proof, consensusType) ==
    IF ~s.isLeader THEN [s EXCEPT !.ret = <<>>]
    ELSE IF s.state # Idle THEN [s EXCEPT !.ret = <<>>]
    ELSE LET seq == s.sequenceNumber + 1
             prePrepareMsg == Msg("prePrepare", consensusType, s.viewNumber, seq,
                                  s.nodeId, proof.taskId, calculateHash(proof),
                                  <<proof>>)
         IN [s EXCEPT !.sequenceNumber = seq,
                      !.currentProposal = <<proof>>,
                      !.currentDigest = calculateHash(proof),
                      !.currentConsensusType = consensusType,
                      !.state = PrePrepared,
                      !.issued = Append(@, [seq |-> seq, taskId |-> proof.taskId]),
                      !.ret = <<prePrepareMsg>>]

\* handlePrePrepare in which a follower does not adopt the consensusType of
\* the message.
handlePrePrepare_OwnType(s, message) ==
    IF s.state # Idle /\ ~(s.isLeader /\ s.state = PrePrepared)
    THEN [s EXCEPT !.ret = <<>>]
    ELSE IF ~validateMessage(s, message) THEN [s EXCEPT !.ret = <<>>]
    ELSE IF message.data = <<>> THEN [s EXCEPT !.ret = <<>>]
    ELSE IF calculateHash(message.data[1]) # message.digest
    THEN [s EXCEPT !.ret = <<>>]
    ELSE LET s1 == IF ~s.isLeader \/ message.nodeId = s.nodeId
                   THEN [s EXCEPT !.currentProposal = message.data,
                                  !.currentDigest = message.digest,
                                  !.viewNumber = message.viewNumber,
                                  !.sequenceNumber = message.sequenceNumber,
                                  !.state = PrePrepared,
                                  !.currentConsensusType =
                                      IF s.isLeader THEN message.consensusType
                                      ELSE "normal"]
                   ELSE s
             prepareMsg == Msg("prepare", s1.currentConsensusType, s1.viewNumber,
                               s1.sequenceNumber, s1.nodeId, message.taskId,
                               s1.currentDigest, <<>>)
             key == <<s1.viewNumber, s1.sequenceNumber>>
         IN [s1 EXCEPT !.prepareMessages[key] = Append(@, prepareMsg),
                       !.ret = <<prepareMsg>>]

handlePrePrepare(s, message) ==
    IF s.state # Idle /\ ~(s.isLeader /\ s.state = PrePrepared)
    THEN [s EXCEPT !.ret = <<>>]
    ELSE IF ~validateMessage(s, message) THEN [s EXCEPT !.ret = <<>>]
    ELSE IF message.data = <<>> THEN [s EXCEPT !.ret = <<>>]
    ELSE IF calculateHash(message.data[1]) # message.digest
    THEN [s EXCEPT !.ret = <<>>]
    ELSE LET s1 == IF ~s.isLeader \/ message.nodeId = s.nodeId
                   THEN [s EXCEPT !.currentProposal = message.data,
                                  !.currentDigest = message.digest,
                                  !.viewNumber = message.viewNumber,
                                  !.sequenceNumber = message.sequenceNumber,
                                  !.state = PrePrepared,
                                  !.currentConsensusType = message.consensusType]
                   ELSE s
             prepareMsg == Msg("prepare", s1.currentConsensusType, s1.viewNumber,
                               s1.sequenceNumber, s1.nodeId, message.taskId,
                               s1.currentDigest, <<>>)
             key == <<s1.viewNumber, s1.sequenceNumber>>
         IN [s1 EXCEPT !.prepareMessages[key] = Append(@, prepareMsg),
                       !.ret = <<prepareMsg>>]

storePendingPrepareMessage(s, message) ==
    IF message.nodeId \in Senders(s.pendingPrepareMessages[KeyOf(message)])
    THEN s
    ELSE [s EXCEPT !.pendingPrepareMessages[KeyOf(message)] = Append(@, message)]

storePendingCommitMessage(s, message) ==
    [s EXCEPT !.pendingCommitMessages[KeyOf(message)] = Append(@, message)]

handlePrepare(s, message) ==
    IF ~validateMessage(s, message) THEN [s EXCEPT !.ret = <<>>]
    ELSE IF message.sequenceNumber \in s.completedSequences
    THEN [s EXCEPT !.ret = <<>>]
    ELSE IF s.state > PrePrepared THEN [s EXCEPT !.ret = <<>>]
    ELSE IF s.state < PrePrepared
    THEN [storePendingPrepareMessage(s, message) EXCEPT !.ret = <<>>]
    ELSE LET key == KeyOf(message)
             \* the node's own Prepare, alone in the set: take in the buffer
             drain == message.nodeId = s.nodeId /\ Len(s.prepareMessages[key]) = 1
             s1 == IF drain
                   THEN [s EXCEPT !.prepareMessages[key] =
                                      AppendNew(@, s.pendingPrepareMessages[key]),
                                  !.pendingPrepareMessages[key] = <<>>]
                   ELSE s
             s2 == IF message.nodeId \in Senders(s1.prepareMessages[key])
                   THEN s1
                   ELSE [s1 EXCEPT !.prepareMessages[key] = Append(@, message)]
             prepareCount == Len(s2.prepareMessages[key])
         IN IF prepareCount >= s2.consensusThreshold /\ s2.state = PrePrepared
            THEN LET commitMsg == Msg("commit", s2.currentConsensusType,
                                      s2.viewNumber, s2.sequenceNumber, s2.nodeId,
                                      message.taskId, s2.currentDigest, <<>>)
                 IN [s2 EXCEPT !.state = Prepared,
                               !.commitMessages[key] = Append(@, commitMsg),
                               !.ret = <<commitMsg>>]
            ELSE [s2 EXCEPT !.ret = <<>>]

resetForNextConsensus(s) ==
    [s EXCEPT !.state = Idle,
              !.currentProposal = <<>>,
              !.currentDigest = <<>>,
              !.currentConsensusType = "normal",
              !.pendingCommitMessages[<<s.viewNumber, s.sequenceNumber>>] = <<>>]

\* --------------------------------------------------------- CommitteeNode

\* TaskProcessingState; Absent stands for "no entry in taskStatuses".
Absent == "ABSENT"
Pending == "PENDING"
Validating == "VALIDATING"
Verified == "VERIFIED"
Consensus == "CONSENSUS"
Rejected == "REJECTED"
Conflict == "CONFLICT"
Expired == "EXPIRED"
Finalized == "FINALIZED"
AwaitingSupplementary == "AWAITING_SUPPLEMENTARY"
NeedsManualReview == "NEEDS_MANUAL_REVIEW"
Validated == "VALIDATED"
Failed == "FAILED"

NoStatus ==
    [state |-> Absent, proofCount |-> 0, verifierIds |-> <<>>,
     supplementaryVerifierIds |-> <<>>, conflictType |-> "", conflictReason |-> "",
     supplementaryRequested |-> FALSE, timeoutReason |-> FALSE,
     consensusTimestamp |-> FALSE, path |-> <<>>]

\* status.state = st, performed by method `by`.  status.path is the history
\* of the task at this node: every state it was given, and by which method.
SetState(s, taskId, st, by) ==
    IF s.taskStatuses[taskId].state = st THEN s
    ELSE [s EXCEPT !.taskStatuses[taskId].state = st,
                   !.taskStatuses[taskId].path = Append(@, <<st, by>>)]

getProofsForTask(s, taskId) == s.taskProofs[taskId]

storeProof(s, taskId, proof) == [s EXCEPT !.taskProofs[taskId] = Append(@, proof)]

\* messageHandler.broadcast / broadcastSupplementaryReady: to every peer.
broadcast(s, m) == [s EXCEPT !.out = Append(@, [to |-> "*", msg |-> m])]

\* messageHandler.sendSupplementaryAck: to one peer, if connected.
sendSupplementaryAck(s, target, m) ==
    [s EXCEPT !.out = Append(@, [to |-> target, msg |-> m])]

RECURSIVE processConsensusQueue(_)
processConsensusQueue(s) ==
    IF s.processingConsensus \/ s.consensusQueue = <<>> THEN s
    ELSE LET taskId == Head(s.consensusQueue)
             status == s.taskStatuses[taskId]
             skip(x) == processConsensusQueue(
                            [x EXCEPT !.consensusQueue = Tail(@),
                                      !.processingConsensus = FALSE])
         IN IF status.state = AwaitingSupplementary THEN skip(s)
            ELSE IF status.state # Consensus THEN skip(s)
            ELSE IF Len(getProofsForTask(s, taskId)) = 0 THEN skip(s)
            ELSE LET consensusType ==
                         IF status.conflictType # "" THEN "conflict" ELSE "normal"
                     s1 == [s EXCEPT !.processingConsensus = TRUE,
                                     !.currentConsensusTaskId = taskId]
                 IN IF ~s1.isLeader THEN s1
                    ELSE LET s2 == startConsensus(s1, getProofsForTask(s1, taskId)[1],
                                                  consensusType)
                         IN IF s2.ret # <<>>
                            THEN LET s3 == handlePrePrepare(broadcast(s2, s2.ret[1]),
                                                            s2.ret[1])
                                 IN IF s3.ret # <<>> THEN broadcast(s3, s3.ret[1])
                                    ELSE s3
                            ELSE skip(SetState(s2, taskId, Validating,
                                               "processConsensusQueue"))

\* s.enqueued notes each task put on the queue (the method's log line).
enqueueConsensusTask(s, taskId) ==
    LET s1 == [s EXCEPT !.consensusQueue = Append(@, taskId),
                        !.enqueued = Append(@, taskId)]
    IN IF ~s1.processingConsensus THEN processConsensusQueue(s1) ELSE s1

requestSupplementaryValidation(s, taskId) ==
    IF s.taskStatuses[taskId].state # AwaitingSupplementary THEN s
    ELSE [s EXCEPT !.taskStatuses[taskId].supplementaryRequested = TRUE,
                   !.timeouts[taskId] = @ + 1]

\* A conflict consensus that closes the task.
handleConflictConsensusReached_Finalizes(s, taskId) ==
    IF s.taskStatuses[taskId].state = Absent THEN s
    ELSE SetState(s, taskId, Finalized, "handleConflictConsensusReached")

handleConflictConsensusReached(s, taskId) ==
    IF s.taskStatuses[taskId].state = Absent THEN s
    ELSE requestSupplementaryValidation(
             SetState(s, taskId, AwaitingSupplementary,
                      "handleConflictConsensusReached"),
             taskId)

onConsensusReached(s, proof, consensusType) ==
    LET taskId == proof.taskId
        s1 == IF consensusType = "conflict"
              THEN handleConflictConsensusReached(s, taskId)
              ELSE IF s.taskStatuses[taskId].state # Absent
              THEN [SetState(s, taskId, Finalized, "onConsensusReached")
                       EXCEPT !.taskStatuses[taskId].consensusTimestamp = TRUE]
              ELSE s
        s2 == IF s1.consensusQueue # <<>> /\ Head(s1.consensusQueue) = taskId
              THEN [s1 EXCEPT !.consensusQueue = Tail(@)]
              ELSE s1
    IN processConsensusQueue([s2 EXCEPT !.processingConsensus = FALSE,
                                        !.currentConsensusTaskId = NoTask])

\* checkCommitConsensus without the record of the completed sequence number.
checkCommitConsensus_NoRecord(s, key) ==
    IF Len(s.commitMessages[key]) >= s.consensusThreshold /\ s.state = Prepared
    THEN LET s1 == [s EXCEPT !.state = Committed]
             s2 == IF s1.currentProposal # <<>>
                   THEN onConsensusReached(
                            [s1 EXCEPT !.reached = Append(@,
                                [taskId |-> s1.currentProposal[1].taskId,
                                 viewNumber |-> s1.viewNumber,
                                 sequenceNumber |-> s1.sequenceNumber,
                                 consensusType |-> s1.currentConsensusType,
                                 digest |-> s1.currentDigest,
                                 slotSenders |-> Senders(s1.commitMessages[
                                     <<s1.viewNumber, s1.sequenceNumber>>]),
                                 countedKey |-> key])],
                            s1.currentProposal[1], s1.currentConsensusType)
                   ELSE s1
         IN resetForNextConsensus(s2)
    ELSE s

\* The callback runs while state is still Committed; the engine is reset
\* only after it returns.  s.reached notes each invocation of the callback.
checkCommitConsensus(s, key) ==
    IF Len(s.commitMessages[key]) >= s.consensusThreshold /\ s.state = Prepared
    THEN LET s1 == [s EXCEPT !.state = Committed,
                             !.completedSequences = @ \cup {s.sequenceNumber}]
             s2 == IF s1.currentProposal # <<>>
                   THEN onConsensusReached(
                            [s1 EXCEPT !.reached = Append(@,
                                [taskId |-> s1.currentProposal[1].taskId,
                                 viewNumber |-> s1.viewNumber,
                                 sequenceNumber |-> s1.sequenceNumber,
                                 consensusType |-> s1.currentConsensusType,
                                 digest |-> s1.currentDigest,
                                 slotSenders |-> Senders(s1.commitMessages[
                                     <<s1.viewNumber, s1.sequenceNumber>>]),
                                 countedKey |-> key])],
                            s1.currentProposal[1], s1.currentConsensusType)
                   ELSE s1
         IN resetForNextConsensus(s2)
    ELSE s

handleCommit(s, message) ==
    IF ~validateMessage(s, message) THEN s
    ELSE IF message.sequenceNumber \in s.completedSequences THEN s
    ELSE IF s.state > Prepared THEN s
    ELSE IF s.state < Prepared THEN storePendingCommitMessage(s, message)
    ELSE LET key == KeyOf(message)
             drain == message.nodeId = s.nodeId /\ Len(s.commitMessages[key]) = 1
             s1 == IF drain
                   THEN [s EXCEPT !.commitMessages[key] =
                                      AppendNew(@, s.pendingCommitMessages[key]),
                                  !.pendingCommitMessages[key] = <<>>]
                   ELSE s
             s2 == IF message.nodeId \in Senders(s1.commitMessages[key])
                   THEN s1
                   ELSE [s1 EXCEPT !.commitMessages[key] = Append(@, message)]
         IN checkCommitConsensus(s2, key)

\* processPrePrepareMessage without its test of the number of local proofs.
processPrePrepareMessage_NoProofTest(s, message) ==
    handlePrePrepare([s EXCEPT !.currentConsensusTaskId = message.taskId], message)

processPrePrepareMessage(s, message) ==
    IF message.data = <<>> THEN [s EXCEPT !.ret = <<>>]
    ELSE
    LET taskId == message.taskId
        localProofs == getProofsForTask(s, taskId)
        s0 == [s EXCEPT !.currentConsensusTaskId = taskId]
        status == s0.taskStatuses[taskId]
        isFinalConsensus ==
            /\ message.consensusType = "normal"
            /\ status.state \in {Validated, AwaitingSupplementary}
    IN IF Len(localProofs) < 2
       THEN [s0 EXCEPT !.pendingPrePrepareMessages[taskId] = <<message>>,
                       !.ret = <<>>]
       ELSE IF isFinalConsensus /\ status.state = Validated
       THEN handlePrePrepare(
                SetState(s0, taskId, Consensus, "processPrePrepareMessage"), message)
       ELSE IF isFinalConsensus
       THEN [s0 EXCEPT !.pendingFinalPrePrepareMessages[taskId] = <<message>>,
                       !.ret = <<>>]
       ELSE IF ~quickValidate(message.data[1]) THEN [s0 EXCEPT !.ret = <<>>]
       ELSE LET deepValidationResult == deepValidate(localProofs)
                \* no status yet: one is made, in state Verified
                s1 == IF status.state = Absent
                      THEN [SetState(s0, taskId, Verified, "processPrePrepareMessage")
                               EXCEPT !.taskStatuses[taskId].proofCount =
                                          Len(localProofs),
                                      !.taskStatuses[taskId].verifierIds =
                                          [i \in 1 .. Len(localProofs) |->
                                               localProofs[i].verifierId]]
                      ELSE s0
                s2 == IF ~deepValidationResult.isValid
                      THEN [SetState(s1, taskId, Conflict, "processPrePrepareMessage")
                               EXCEPT !.taskStatuses[taskId].conflictType =
                                          analyzeConflictType(deepValidationResult),
                                      !.taskStatuses[taskId].conflictReason =
                                          deepValidationResult.reason]
                      ELSE s1
            IN handlePrePrepare(
                   SetState(s2, taskId, Consensus, "processPrePrepareMessage"),
                   message)

onMessageReceived(s, message) ==
    IF s.currentConsensusTaskId # NoTask /\ message.taskId # s.currentConsensusTaskId
    THEN s
    ELSE IF message.type = "prePrepare"
    THEN LET s1 == processPrePrepareMessage(s, message)
         IN IF s1.ret = <<>> THEN s1
            ELSE LET s2 == handlePrepare(broadcast(s1, s1.ret[1]), s1.ret[1])
                 IN IF s2.ret # <<>> THEN broadcast(s2, s2.ret[1]) ELSE s2
    ELSE IF message.type = "prepare"
    THEN LET s1 == handlePrepare(s, message)
         IN IF s1.ret # <<>> THEN broadcast(s1, s1.ret[1]) ELSE s1
    ELSE IF message.type = "commit" THEN handleCommit(s, message)
    ELSE s

\* checkPendingPrePrepareMessages without the removal of the buffer entry.
checkPendingPrePrepareMessages_KeepsEntry(s, taskId) ==
    IF s.pendingPrePrepareMessages[taskId] = <<>> THEN s
    ELSE IF Len(getProofsForTask(s, taskId)) < 2 THEN s
    ELSE LET s1 == processPrePrepareMessage(s, s.pendingPrePrepareMessages[taskId][1])
         IN IF s1.ret = <<>> THEN s1
            ELSE LET s2 == handlePrepare(broadcast(s1, s1.ret[1]), s1.ret[1])
                 IN IF s2.ret = <<>> THEN s2
                    ELSE handleCommit(broadcast(s2, s2.ret[1]), s2.ret[1])

\* broadcast(response!) on a null response throws (message.type of null),
\* which ends the handler there: nothing after it runs.
checkPendingPrePrepareMessages(s, taskId) ==
    IF s.pendingPrePrepareMessages[taskId] = <<>> THEN s
    ELSE IF Len(getProofsForTask(s, taskId)) < 2 THEN s
    ELSE LET pendingMessage == s.pendingPrePrepareMessages[taskId][1]
             s1 == processPrePrepareMessage(
                       [s EXCEPT !.pendingPrePrepareMessages[taskId] = <<>>],
                       pendingMessage)
         IN IF s1.ret = <<>> THEN s1
            ELSE LET s2 == handlePrepare(broadcast(s1, s1.ret[1]), s1.ret[1])
                 IN IF s2.ret = <<>> THEN s2
                    ELSE handleCommit(broadcast(s2, s2.ret[1]), s2.ret[1])

\* handleQoSProof without its test that the verifier has reported before.
handleQoSProof_NoDuplicateTest(s, proof) ==
    IF ~quickValidate(proof) THEN s
    ELSE
    LET taskId == proof.taskId
        verifierId == proof.verifierId
        \* a task seen for the first time gets a status in state Pending
        s0 == IF s.taskStatuses[taskId].state = Absent
              THEN SetState(s, taskId, Pending, "handleQoSProof")
              ELSE s
    IN LET s1 == [storeProof(s0, taskId, proof) EXCEPT
                      !.taskStatuses[taskId].proofCount = @ + 1,
                      !.taskStatuses[taskId].verifierIds = Append(@, verifierId)]
           s2 == IF s1.taskStatuses[taskId].state = Pending
                 THEN SetState(s1, taskId, Validating, "handleQoSProof")
                 ELSE s1
           proofs == getProofsForTask(s2, taskId)
       IN IF ~s.isLeader THEN checkPendingPrePrepareMessages(s2, taskId)
          ELSE IF s2.taskStatuses[taskId].proofCount >= 2
                  /\ s2.taskStatuses[taskId].state # Consensus
                  /\ Len(proofs) >= 2
          THEN LET deepValidationResult == deepValidate(proofs)
                   s3 == IF ~deepValidationResult.isValid
                            /\ deepValidationResult.hasConflict
                         THEN [SetState(s2, taskId, Conflict, "handleQoSProof")
                                  EXCEPT !.taskStatuses[taskId].conflictType =
                                             analyzeConflictType(deepValidationResult),
                                         !.taskStatuses[taskId].conflictReason =
                                             deepValidationResult.reason]
                         ELSE s2
               IN enqueueConsensusTask(
                      SetState(s3, taskId, Consensus, "handleQoSProof"), taskId)
          ELSE s2

handleQoSProof(s, proof) ==
    IF ~quickValidate(proof) THEN s
    ELSE
    LET taskId == proof.taskId
        verifierId == proof.verifierId
        \* a task seen for the first time gets a status in state Pending
        s0 == IF s.taskStatuses[taskId].state = Absent
              THEN SetState(s, taskId, Pending, "handleQoSProof")
              ELSE s
    IN IF \E i \in 1 .. Len(s0.taskStatuses[taskId].verifierIds) :
              s0.taskStatuses[taskId].verifierIds[i] = verifierId
       THEN s0
       ELSE
       LET s1 == [storeProof(s0, taskId, proof) EXCEPT
                      !.taskStatuses[taskId].proofCount = @ + 1,
                      !.taskStatuses[taskId].verifierIds = Append(@, verifierId)]
           s2 == IF s1.taskStatuses[taskId].state = Pending
                 THEN SetState(s1, taskId, Validating, "handleQoSProof")
                 ELSE s1
           proofs == getProofsForTask(s2, taskId)
       IN IF ~s.isLeader THEN checkPendingPrePrepareMessages(s2, taskId)
          ELSE IF s2.taskStatuses[taskId].proofCount >= 2
                  /\ s2.taskStatuses[taskId].state # Consensus
                  /\ Len(proofs) >= 2
          THEN LET deepValidationResult == deepValidate(proofs)
                   s3 == IF ~deepValidationResult.isValid
                            /\ deepValidationResult.hasConflict
                         THEN [SetState(s2, taskId, Conflict, "handleQoSProof")
                                  EXCEPT !.taskStatuses[taskId].conflictType =
                                             analyzeConflictType(deepValidationResult),
                                         !.taskStatuses[taskId].conflictReason =
                                             deepValidationResult.reason]
                         ELSE s2
               IN enqueueConsensusTask(
                      SetState(s3, taskId, Consensus, "handleQoSProof"), taskId)
          ELSE s2

SupplementaryMsg(type, taskId, supplementaryProofId, from) ==
    [type |-> type, taskId |-> taskId,
     supplementaryProofId |-> supplementaryProofId, nodeId |-> from]

\* handleSupplementaryReadyMessage without the ack of a follower that has
\* already validated the task.
handleSupplementaryReadyMessage_NoAck(s, message) == s

handleSupplementaryReadyMessage(s, message) ==
    LET status == s.taskStatuses[message.taskId]
    IN IF status.state = Absent THEN s
       ELSE IF ~s.isLeader /\ status.state \in {Validated, Consensus, Finalized}
       THEN sendSupplementaryAck(s, message.nodeId,
                SupplementaryMsg("SupplementaryAck", message.taskId,
                                 message.supplementaryProofId, s.nodeId))
       ELSE s

startFinalConsensus(s, taskId, consensusData) ==
    IF s.taskStatuses[taskId].state # Validated THEN s
    ELSE LET s1 == [SetState(s, taskId, Consensus, "startFinalConsensus") EXCEPT
                        !.currentConsensusTaskId = taskId,
                        !.supplementaryReadyStatus[taskId] = {},
                        !.pendingSupplementaryConsensus[taskId] = <<>>]
             s2 == startConsensus(s1, consensusData, "normal")
         IN IF s2.ret # <<>>
            THEN LET s3 == handlePrePrepare(broadcast(s2, s2.ret[1]), s2.ret[1])
                 IN IF s3.ret # <<>> THEN broadcast(s3, s3.ret[1]) ELSE s3
            ELSE SetState(s2, taskId, Validated, "startFinalConsensus")

\* The quorum of acknowledgements is computed for a committee of four,
\* whatever the size of the committee.
handleSupplementaryAckMessage(s, message) ==
    IF ~s.isLeader THEN s
    ELSE IF s.taskStatuses[message.taskId].state \in {Consensus, Finalized} THEN s
    ELSE LET taskId == message.taskId
             totalNodes == 4
             requiredNodes == 2 * ((totalNodes - 1) \div 3) + 1
             s1 == [s EXCEPT !.supplementaryReadyStatus[taskId] =
                                 @ \cup {message.nodeId, s.nodeId}]
         IN IF Cardinality(s1.supplementaryReadyStatus[taskId]) >= requiredNodes
               /\ s1.pendingSupplementaryConsensus[taskId] # <<>>
            THEN [startFinalConsensus(
                      [s1 EXCEPT !.finals = Append(@,
                           [taskId |-> taskId,
                            readyNodes |-> s1.supplementaryReadyStatus[taskId]])],
                      taskId, s1.pendingSupplementaryConsensus[taskId][1])
                     EXCEPT !.pendingSupplementaryConsensus[taskId] = <<>>,
                            !.supplementaryReadyStatus[taskId] = {}]
            ELSE s1

handleSupplementaryMessage(s, message) ==
    IF message.type = "SupplementaryReady"
    THEN handleSupplementaryReadyMessage(s, message)
    ELSE IF message.type = "SupplementaryAck"
    THEN handleSupplementaryAckMessage(s, message)
    ELSE s

\* checkSupplementaryTimeout without its tests of the task's state.
checkSupplementaryTimeout_Unguarded(s, taskId) ==
    [SetState(s, taskId, NeedsManualReview, "checkSupplementaryTimeout")
        EXCEPT !.taskStatuses[taskId].timeoutReason = TRUE]

checkSupplementaryTimeout(s, taskId) ==
    LET status == s.taskStatuses[taskId]
    IN IF status.state # AwaitingSupplementary THEN s
       ELSE IF Len(status.supplementaryVerifierIds) > 0 THEN s
       ELSE [SetState(s, taskId, NeedsManualReview, "checkSupplementaryTimeout")
                EXCEPT !.taskStatuses[taskId].timeoutReason = TRUE]

\* handleSupplementaryProof without the increment of proofCount.
handleSupplementaryProof_NoCount(s, taskId, given) ==
    LET status == s.taskStatuses[taskId]
    IN IF status.state # AwaitingSupplementary THEN s
       ELSE IF Len(getProofsForTask(s, taskId)) < 2 THEN s
       ELSE IF ~quickValidate(given)
       THEN SetState(s, taskId, Failed, "handleSupplementaryProof")
       ELSE
       LET proof == IF given.id = "" THEN [given EXCEPT !.id = "supplementary"]
                    ELSE given
           s1 == [storeProof(s, taskId, proof) EXCEPT
                      !.taskStatuses[taskId].verifierIds =
                          Append(@, proof.verifierId),
                      !.taskStatuses[taskId].supplementaryVerifierIds =
                          Append(@, proof.verifierId)]
           conflictType == IF status.conflictType # "" THEN status.conflictType
                           ELSE "structural"
           \* originalProofs is the stored array itself, so it already holds
           \* the proof that storeProof has just pushed
           resolvedResult == resolveWithSupplementaryProof(
                                 getProofsForTask(s1, taskId), proof,
                                 conflictType, status.conflictReason)
       IN IF resolvedResult.isValid
          THEN LET s2 == SetState(s1, taskId, Validated, "handleSupplementaryProof")
               IN IF s2.isLeader
                  THEN LET consensusData ==
                               [getProofsForTask(s2, taskId)[1] EXCEPT
                                    !.supplementaryInfo = <<resolvedResult>>]
                           readyMessage ==
                               SupplementaryMsg("SupplementaryReady", taskId,
                                                proof.id, s2.nodeId)
                       IN [broadcast(s2, readyMessage) EXCEPT
                               !.pendingSupplementaryConsensus[taskId] =
                                   <<consensusData>>,
                               !.supplementaryReadyStatus[taskId] =
                                   @ \cup {s2.nodeId}]
                  ELSE IF s2.pendingFinalPrePrepareMessages[taskId] # <<>>
                  THEN LET s3 == processPrePrepareMessage(
                                     [s2 EXCEPT
                                         !.pendingFinalPrePrepareMessages[taskId]
                                             = <<>>],
                                     s2.pendingFinalPrePrepareMessages[taskId][1])
                       IN IF s3.ret = <<>> THEN s3
                          ELSE LET s4 == handlePrepare(broadcast(s3, s3.ret[1]),
                                                       s3.ret[1])
                               IN IF s4.ret = <<>> THEN s4
                                  ELSE handleCommit(broadcast(s4, s4.ret[1]),
                                                    s4.ret[1])
                  ELSE sendSupplementaryAck(s2, "leader",
                           SupplementaryMsg("SupplementaryAck", taskId, proof.id,
                                            s2.nodeId))
          ELSE IF resolvedResult.needsManualReview
          THEN SetState(s1, taskId, NeedsManualReview, "handleSupplementaryProof")
          ELSE SetState(s1, taskId, Failed, "handleSupplementaryProof")

handleSupplementaryProof(s, taskId, given) ==
    LET status == s.taskStatuses[taskId]
    IN IF status.state # AwaitingSupplementary THEN s
       ELSE IF Len(getProofsForTask(s, taskId)) < 2 THEN s
       ELSE IF ~quickValidate(given)
       THEN SetState(s, taskId, Failed, "handleSupplementaryProof")
       ELSE
       LET proof == IF given.id = "" THEN [given EXCEPT !.id = "supplementary"]
                    ELSE given
           s1 == [storeProof(s, taskId, proof) EXCEPT
                      !.taskStatuses[taskId].proofCount = @ + 1,
                      !.taskStatuses[taskId].verifierIds =
                          Append(@, proof.verifierId),
                      !.taskStatuses[taskId].supplementaryVerifierIds =
                          Append(@, proof.verifierId)]
           conflictType == IF status.conflictType # "" THEN status.conflictType
                           ELSE "structural"
           \* originalProofs is the stored array itself, so it already holds
           \* the proof that storeProof has just pushed
           resolvedResult == resolveWithSupplementaryProof(
                                 getProofsForTask(s1, taskId), proof,
                                 conflictType, status.conflictReason)
       IN IF resolvedResult.isValid
          THEN LET s2 == SetState(s1, taskId, Validated, "handleSupplementaryProof")
               IN IF s2.isLeader
                  THEN LET consensusData ==
                               [getProofsForTask(s2, taskId)[1] EXCEPT
                                    !.supplementaryInfo = <<resolvedResult>>]
                           readyMessage ==
                               SupplementaryMsg("SupplementaryReady", taskId,
                                                proof.id, s2.nodeId)
                       IN [broadcast(s2, readyMessage) EXCEPT
                               !.pendingSupplementaryConsensus[taskId] =
                                   <<consensusData>>,
                               !.supplementaryReadyStatus[taskId] =
                                   @ \cup {s2.nodeId}]
                  ELSE IF s2.pendingFinalPrePrepareMessages[taskId] # <<>>
                  THEN LET s3 == processPrePrepareMessage(
                                     [s2 EXCEPT
                                         !.pendingFinalPrePrepareMessages[taskId]
                                             = <<>>],
                                     s2.pendingFinalPrePrepareMessages[taskId][1])
                       IN IF s3.ret = <<>> THEN s3
                          ELSE LET s4 == handlePrepare(broadcast(s3, s3.ret[1]),
                                                       s3.ret[1])
                               IN IF s4.ret = <<>> THEN s4
                                  ELSE handleCommit(broadcast(s4, s4.ret[1]),
                                                    s4.ret[1])
                  ELSE sendSupplementaryAck(s2, "leader",
                           SupplementaryMsg("SupplementaryAck", taskId, proof.id,
                                            s2.nodeId))
          ELSE IF resolvedResult.needsManualReview
          THEN SetState(s1, taskId, NeedsManualReview, "handleSupplementaryProof")
          ELSE SetState(s1, taskId, Failed, "handleSupplementaryProof")

\* ------------------------------------------------------------ the system

\* new CommitteeNode(nodeId, port, isLeader, peers, totalNodes)
CommitteeNode(nodeId, isLeader, totalNodes) ==
    [nodeId |-> nodeId, isLeader |-> isLeader,
     viewNumber |-> 0, sequenceNumber |-> 0,
     currentConsensusType |-> "normal", state |-> Idle,
     prepareMessages |-> [k \in Keys |-> <<>>],
     commitMessages |-> [k \in Keys |-> <<>>],
     pendingPrepareMessages |-> [k \in Keys |-> <<>>],
     pendingCommitMessages |-> [k \in Keys |-> <<>>],
     completedSequences |-> {},
     currentProposal |-> <<>>, currentDigest |-> <<>>,
     consensusThreshold |-> consensusThreshold(totalNodes),
     taskStatuses |-> [t \in Tasks |-> NoStatus],
     taskProofs |-> [t \in Tasks |-> <<>>],
     consensusQueue |-> <<>>, processingConsensus |-> FALSE,
     currentConsensusTaskId |-> NoTask,
     pendingPrePrepareMessages |-> [t \in Tasks |-> <<>>],
     pendingFinalPrePrepareMessages |-> [t \in Tasks |-> <<>>],
     supplementaryReadyStatus |-> [t \in Tasks |-> {}],
     pendingSupplementaryConsensus |-> [t \in Tasks |-> <<>>],
     timeouts |-> [t \in Tasks |-> 0],
     ret |-> <<>>, out |-> <<>>, reached |-> <<>>, issued |-> <<>>,
     enqueued |-> <<>>,
     finals |-> <<>>]

Nodes == DOMAIN node

\* MessageHandler: one connection to each peer, none to the node itself.
Connections == {p \in Nodes \X Nodes : p[1] # p[2]}

Targets(n, to) == IF to = "*" THEN Nodes \ {n} ELSE (Nodes \ {n}) \cap {to}

RECURSIVE Send(_, _, _)
Send(c, n, out) ==
    IF out = <<>> THEN c
    ELSE Send([p \in DOMAIN c |->
                   IF p[1] = n /\ p[2] \in Targets(n, Head(out).to)
                   THEN Append(c[p], Head(out).msg) ELSE c[p]],
              n, Tail(out))

\* The connection's message callback: supplementary messages go to
\* handleSupplementaryMessage, all others to onMessageReceived.
Dispatch(s, message) ==
    IF message.type \in {"SupplementaryReady", "SupplementaryAck"}
    THEN handleSupplementaryMessage(s, message)
    ELSE onMessageReceived(s, message)

\* One handler of node n ran to its end and left the fields r; c is what
\* the connections held when it began.
Ran(n, r, c) ==
    /\ r.sequenceNumber <= MaxSeq
    /\ node' = [node EXCEPT ![n] = [r EXCEPT !.out = <<>>, !.ret = <<>>]]
    /\ chan' = Send(c, n, r.out)

\* POST /proof: a verifier submits the next proof to node n.
SubmitProof(n) ==
    /\ feed[n] # <<>>
    /\ Head(feed[n]).kind = "proof"
    /\ Ran(n, handleQoSProof(node[n], Head(feed[n]).proof), chan)
    /\ feed' = [feed EXCEPT ![n] = Tail(@)]

\* POST /proof/:taskId/supplementary
SubmitSupplementary(n) ==
    /\ feed[n] # <<>>
    /\ Head(feed[n]).kind = "supplementary"
    /\ Ran(n, handleSupplementaryProof(node[n], Head(feed[n]).proof.taskId,
                                       Head(feed[n]).proof), chan)
    /\ feed' = [feed EXCEPT ![n] = Tail(@)]

\* The oldest message on the connection from src arrives at dst.
Receive(src, dst) ==
    /\ chan[<<src, dst>>] # <<>>
    /\ Ran(dst, Dispatch(node[dst], Head(chan[<<src, dst>>])),
           [chan EXCEPT ![<<src, dst>>] = Tail(@)])
    /\ UNCHANGED feed

\* A timer set by requestSupplementaryValidation fires.
Timeout(n, taskId) ==
    /\ node[n].timeouts[taskId] > 0
    /\ Ran(n, checkSupplementaryTimeout(
                  [node[n] EXCEPT !.timeouts[taskId] = @ - 1], taskId), chan)
    /\ UNCHANGED feed

Start(committee, totalNodes, inputs) ==
    /\ node = [n \in committee |-> CommitteeNode(n, n = LeaderId, totalNodes)]
    /\ chan = [p \in {q \in committee \X committee : q[1] # q[2]} |-> <<>>]
    /\ feed = inputs

\* An input of a node: a proof a verifier will submit to it.  The supplementary
\* verifier answers a node's request ("request"), or waits until every node
\* has asked ("all").
In(kind, p) == [kind |-> kind, proof |-> p, after |-> "request"]

InAfterAll(p) == [kind |-> "supplementary", proof |-> p, after |-> "all"]

\* Nothing is left to happen: no message in flight, no proof to submit.
Quiescent ==
    /\ \A p \in Connections : chan[p] = <<>>
    /\ \A n \in Nodes : feed[n] = <<>>

StateOf(n, t) == node[n].taskStatuses[t].state

PathOf(n, t) == node[n].taskStatuses[t].path

\* -------------------------------------------------------------- scenarios

Live3 == {"leader", "f1", "f2"}

\* v1 and v2 agree on the media specs.
TwoProofs == <<In("proof", Proof("A", "v1", "h264", TRUE)),
               In("proof", Proof("A", "v2", "h264", TRUE))>>

\* ... and a third verifier reports later.
ThreeProofs == Append(TwoProofs, In("proof", Proof("A", "v3", "h264", TRUE)))

\* v1 and v2 disagree on the codec.
ConflictProofs == <<In("proof", Proof("A", "v1", "h264", TRUE)),
                    In("proof", Proof("A", "v2", "h265", TRUE))>>

\* ... and the supplementary verifier sides with v1.
ResolvedProofs ==
    Append(ConflictProofs, In("supplementary", Proof("A", "v3", "h264", TRUE)))

\* Two proofs of task A, then two of task B.
TwoTasks == TwoProofs \o <<In("proof", Proof("B", "v1", "h264", TRUE)),
                           In("proof", Proof("B", "v2", "h264", TRUE))>>

\* ... or is on nobody's side.
UnresolvedProofs ==
    Append(ConflictProofs, In("supplementary", Proof("A", "v3", "vp9", TRUE)))

\* Four nodes of which f3 is down; two agreeing proofs at each of the others.
InitOneDown == Start(Live3, 4, [n \in Live3 |-> TwoProofs])

\* Leader and f1 hold both proofs, f2 and f3 one each.
InitInsufficient ==
    Start(Committee4, 4, [n \in Committee4 |->
                              IF n \in {"leader", "f1"} THEN TwoProofs
                              ELSE SubSeq(TwoProofs, 1, 1)])

\* A conflict that the supplementary proof does not settle.
InitUnresolved == Start(Live3, 4, [n \in Live3 |-> UnresolvedProofs])

\* A conflict whose supplementary proof reaches the leader alone.
InitLeaderResolved ==
    Start(Live3, 4, [n \in Live3 |-> IF n = LeaderId THEN ResolvedProofs
                                     ELSE ConflictProofs])

\* ... once every node has asked for it.
ResolvedAfterAll ==
    Append(ConflictProofs, InAfterAll(Proof("A", "v3", "h264", TRUE)))

\* The leader is given two tasks, the followers the first only.
InitTwoTasks ==
    Start(Live3, 4, [n \in Live3 |-> IF n = LeaderId THEN TwoTasks
                                     ELSE TwoProofs])

\* The supplementary verifier answers a request: it submits to a node that has
\* asked for a supplementary proof of the task.
Requested(n) ==
    /\ feed[n] # <<>>
    /\ \A m \in (IF Head(feed[n]).after = "all" THEN Nodes ELSE {n}) :
           node[m].taskStatuses[Head(feed[n]).proof.taskId].supplementaryRequested

Init ==
    \/ InitOneDown
    \/ InitInsufficient
    \/ InitUnresolved
    \/ InitLeaderResolved
    \/ InitTwoTasks

Next ==
    \/ \E n \in Nodes : SubmitProof(n)
    \/ \E n \in Nodes : Requested(n) /\ SubmitSupplementary(n)
    \/ \E p \in Connections : Receive(p[1], p[2])
    \/ \E n \in Nodes, t \in Tasks : Timeout(n, t)

\* Any interleaving of the handlers, over the scenarios above.
Spec == Init /\ [][Next]_vars

NextMessages ==
    \/ \E n \in Nodes : SubmitProof(n)
    \/ \E p \in Connections : Receive(p[1], p[2])

\* Scenario "fault tolerance": one node of four never takes part.
SpecOneDown == InitOneDown /\ [][NextMessages]_vars

\* Scenario "insufficient per-follower proofs".
SpecInsufficient == InitInsufficient /\ [][NextMessages]_vars


\* ---- Schedules with one slow node.  The leader, f2 and f3 take their
\* inputs at once and in a fixed order; f1 reads its connections whenever it
\* gets to it, the leader's last; verifier v3 answers when it pleases.

Rank == [n \in Committee7 |->
            CASE n = "leader" -> 1 [] n = "f2" -> 2 [] n = "f3" -> 3 [] n = "f1" -> 4
              [] n = "f4" -> 5 [] n = "f5" -> 6 [] n = "f6" -> 7]

SlowNode == "f1"

SlowVerifier == "v3"

\* n's next input is one that is taken at once.
HasProof(n) ==
    /\ feed[n] # <<>>
    /\ \/ Head(feed[n]).kind = "supplementary" /\ Requested(n)
       \/ Head(feed[n]).kind = "proof"
          /\ Head(feed[n]).proof.verifierId # SlowVerifier

FirstInput(n) == HasProof(n) /\ \A m \in Nodes : Rank[m] < Rank[n] => ~HasProof(m)

HasMail(n) == \E src \in Nodes \ {n} : chan[<<src, n>>] # <<>>

Before(m, src, dst) ==
    IF dst = SlowNode THEN Rank[m] > Rank[src] ELSE Rank[m] < Rank[src]

FirstChannel(src, dst) ==
    \A m \in Nodes \ {dst} : Before(m, src, dst) => chan[<<m, dst>>] = <<>>

PromptSubmit(n) == FirstInput(n) /\ SubmitProof(n)

PromptSupplementary(n) == FirstInput(n) /\ SubmitSupplementary(n)

LateSubmit(n) ==
    /\ feed[n] # <<>>
    /\ Head(feed[n]).proof.verifierId = SlowVerifier
    /\ SubmitProof(n)

PromptReceive(src, dst) ==
    /\ dst # SlowNode
    /\ \A m \in Nodes : ~HasProof(m)
    /\ FirstChannel(src, dst)
    /\ \A m \in Nodes \ {SlowNode} : Rank[m] < Rank[dst] => ~HasMail(m)
    /\ Receive(src, dst)

SlowReceive(src) == FirstChannel(src, SlowNode) /\ Receive(src, SlowNode)

\* Scenario "happy path": the same two proofs at all four nodes.
InitHappy == Start(Committee4, 4, [n \in Committee4 |-> TwoProofs])

NextHappy ==
    \/ \E n \in Nodes : PromptSubmit(n)
    \/ \E p \in Connections : PromptReceive(p[1], p[2])
    \/ \E src \in Nodes \ {SlowNode} : SlowReceive(src)

SpecHappy == InitHappy /\ [][NextHappy]_vars

\* The happy path, after which a third verifier reports to the leader.
InitRerun ==
    Start(Committee4, 4, [n \in Committee4 |-> IF n = LeaderId THEN ThreeProofs
                                               ELSE TwoProofs])

NextRerun ==
    \/ \E n \in Nodes : PromptSubmit(n)
    \/ LateSubmit(LeaderId)
    \/ \E p \in Connections : PromptReceive(p[1], p[2])
    \/ \E src \in Nodes \ {SlowNode} : SlowReceive(src)

SpecRerun == InitRerun /\ [][NextRerun]_vars

\* Scenario "structural conflict resolved by majority": the supplementary
\* proof is submitted to each of the four nodes once all are waiting for it.
InitResolved == Start(Committee4, 4, [n \in Committee4 |-> ResolvedAfterAll])

NextResolved ==
    \/ \E n \in Nodes : PromptSubmit(n)
    \/ \E n \in Nodes : PromptSupplementary(n)
    \/ \E p \in Connections : PromptReceive(p[1], p[2])
    \/ \E src \in Nodes \ {SlowNode} : SlowReceive(src)

SpecResolved == InitResolved /\ [][NextResolved]_vars

\* A conflict resolved at the leader, f2 and f3, while no supplementary proof
\* reaches f1 before its timer fires.
InitLateTimeout ==
    Start(Committee4, 4, [n \in Committee4 |-> IF n = SlowNode THEN ConflictProofs
                                               ELSE ResolvedProofs])

NextLateTimeout ==
    \/ \E n \in Nodes : PromptSubmit(n)
    \/ \E n \in Nodes : PromptSupplementary(n)
    \/ \E p \in Connections : PromptReceive(p[1], p[2])
    \/ \E src \in Nodes \ {SlowNode} : SlowReceive(src)
    \/ \E t \in Tasks : Timeout(SlowNode, t)

SpecLateTimeout == InitLateTimeout /\ [][NextLateTimeout]_vars

\* The PrePrepare the leader issued for its i-th round of a task without
\* conflict, as processConsensusQueue built it.
IssuedPrePrepare(i) ==
    LET e == node[LeaderId].issued[i]
        proof == node[LeaderId].taskProofs[e.taskId][1]
    IN Msg("prePrepare", "normal", node[LeaderId].viewNumber, e.seq, LeaderId,
           e.taskId, calculateHash(proof), <<proof>>)

\* The leader's connection to dst carries the PrePrepare of a round that dst
\* has completed a second time (a faulty leader sends it again).
Retransmit(dst) ==
    /\ dst # LeaderId
    /\ \E i \in 1 .. Len(node[LeaderId].issued) :
           /\ node[LeaderId].issued[i].seq \in node[dst].completedSequences
           /\ \A k \in 1 .. Len(chan[<<LeaderId, dst>>]) :
                  chan[<<LeaderId, dst>>][k] # IssuedPrePrepare(i)
           /\ chan' = [chan EXCEPT ![<<LeaderId, dst>>] =
                                       Append(@, IssuedPrePrepare(i))]
    /\ UNCHANGED <<node, feed>>

NextRetransmit ==
    \/ \E n \in Nodes : SubmitProof(n)
    \/ \E p \in Connections : Receive(p[1], p[2])
    \/ \E n \in Nodes : Retransmit(n)

\* Three live nodes of four, two agreeing proofs each, and a leader that may
\* repeat its PrePrepare.
SpecRetransmit == InitOneDown /\ [][NextRetransmit]_vars

\* A conflict whose supplementary proof comes from v1, one of the two original
\* verifiers.
SameVerifierProofs ==
    Append(ConflictProofs, In("supplementary", Proof("A", "v1", "h264", TRUE)))

\* ... and reaches the leader alone.
InitSameVerifier ==
    Start(Live3, 4, [n \in Live3 |-> IF n = LeaderId THEN SameVerifierProofs
                                     ELSE ConflictProofs])

SpecSameVerifier == InitSameVerifier /\ [][Next]_vars

\* Scenario "committee of seven": six of the seven nodes are up (f1 is down),
\* all served promptly; each is given the conflicting proofs and then the
\* supplementary proof it asks for.  The leader's timer may fire at any time.
Live6 == Committee7 \ {SlowNode}

InitSeven == Start(Live6, 7, [n \in Live6 |-> ResolvedProofs])

NextSeven ==
    \/ \E n \in Nodes : PromptSubmit(n)
    \/ \E n \in Nodes : PromptSupplementary(n)
    \/ \E p \in Connections : PromptReceive(p[1], p[2])
    \/ \E t \in Tasks : Timeout(LeaderId, t)

SpecSeven == InitSeven /\ [][NextSeven]_vars

\* Scenario "quick-validate failure": besides the two agreeing proofs, each
\* node is sent a proof of v3 that fails quickValidate: before the others at
\* f1, between them at the leader, after them at f2.
BadProof == In("proof", Proof("A", "v3", "h264", FALSE))

InitBadProof ==
    Start(Live3, 4,
          [n \in Live3 |->
              CASE n = "f1" -> <<BadProof>> \o TwoProofs
                [] n = LeaderId -> <<TwoProofs[1], BadProof, TwoProofs[2]>>
                [] OTHER -> Append(TwoProofs, BadProof)])

SpecBadProof == InitBadProof /\ [][NextMessages]_vars

\* ---- The validator alone: resolveWithSupplementaryProof applied to two
\* conflicting original proofs (of v1 and v2), or to those and a third one,
\* and a supplementary proof of v3, over all codecs.
CodecValues == {"h264", "h265", "vp9"}

ResolveInputs ==
    {[kind |-> "resolve", originalProofs |-> SubSeq(o, 1, k), proof |-> p] :
        o \in {<<Proof("A", "v1", c[1], TRUE), Proof("A", "v2", c[2], TRUE),
                 Proof("A", "v3", c[3], TRUE)>> :
                     c \in {d \in [1 .. 3 -> CodecValues] : d[1] # d[2]}},
        k \in 2 .. 3,
        p \in {Proof("A", "v3", c, TRUE) : c \in CodecValues}}

InitValidator ==
    /\ node = [n \in {"validator"} |-> [resolvedResult |-> <<>>]]
    /\ chan = <<>>
    /\ \E in \in ResolveInputs : feed = [n \in {"validator"} |-> <<in>>]

\* The call made by test 3.2: deepValidate on the first two proofs, then
\* analyzeConflictType, then resolveWithSupplementaryProof.
Resolve ==
    /\ node["validator"].resolvedResult = <<>>
    /\ LET in == Head(feed["validator"])
           initialResult == deepValidate(SubSeq(in.originalProofs, 1, 2))
       IN node' = [node EXCEPT !["validator"].resolvedResult =
                       <<resolveWithSupplementaryProof(
                             in.originalProofs, in.proof,
                             analyzeConflictType(initialResult),
                             initialResult.reason)>>]
    /\ UNCHANGED <<chan, feed>>

SpecValidator == InitValidator /\ [][Resolve]_vars

\* ---- deepValidate alone, applied to a set of proofs and then to a subset
\* of it.  The proofs are those of verifiers v1, v2, ..., each either the
\* plain proof or one that differs from it in the bitrate, in the overall
\* video score, in the score of GOP "0", or in the GOP it has sampled.
MaxProofs == 4

PlainProof(i) ==
    QoSProof("A", <<"v", i>>, "h264", TRUE, <<1920, 1080>>, 96, TRUE, 80,
             [g \in {"0"} |-> "86"], <<90>>)

ProofVariants(i) ==
    {PlainProof(i),
     [PlainProof(i) EXCEPT !.bitrate = 104],
     [PlainProof(i) EXCEPT !.overallScore = 86],
     [PlainProof(i) EXCEPT !.gopScores = [g \in {"0"} |-> "87"]],
     [PlainProof(i) EXCEPT !.gopScores = [g \in {"1"} |-> "86"]]}

\* The sequences of n proofs, the i-th a proof of verifier i.
RECURSIVE ProofSeqs(_)
ProofSeqs(n) ==
    IF n = 0 THEN {<<>>}
    ELSE {Append(S, p) : S \in ProofSeqs(n - 1), p \in ProofVariants(n)}

ProofSets == UNION {ProofSeqs(n) : n \in 2 .. MaxProofs}

\* The proofs of S at the positions in keep, in their order.
Pick(S, keep) ==
    LET F[i \in 0 .. Len(S)] ==
            IF i = 0 THEN <<>>
            ELSE IF i \in keep THEN Append(F[i - 1], S[i]) ELSE F[i - 1]
    IN F[Len(S)]

InitSubsets ==
    /\ node = [n \in {"validator"} |->
                  [result |-> <<>>, conflictType |-> <<>>, subset |-> {},
                   subsetResult |-> <<>>]]
    /\ chan = <<>>
    /\ \E S \in ProofSets :
           feed = [n \in {"validator"} |-> <<[kind |-> "deepValidate", proofs |-> S]>>]

DeepValidate ==
    /\ node["validator"].result = <<>>
    /\ LET result == deepValidate(Head(feed["validator"]).proofs)
       IN node' = [node EXCEPT
                      !["validator"].result = <<result>>,
                      !["validator"].conflictType = <<analyzeConflictType(result)>>]
    /\ UNCHANGED <<chan, feed>>

DeepValidateSubset ==
    /\ node["validator"].result # <<>>
    /\ node["validator"].subsetResult = <<>>
    /\ \E keep \in SUBSET (1 .. Len(Head(feed["validator"]).proofs)) :
           /\ Cardinality(keep) >= 2
           /\ node' = [node EXCEPT
                  !["validator"].subset = keep,
                  !["validator"].subsetResult =
                      <<deepValidate(Pick(Head(feed["validator"]).proofs, keep))>>]
    /\ UNCHANGED <<chan, feed>>

NextSubsets == DeepValidate \/ DeepValidateSubset

SpecSubsets == InitSubsets /\ [][NextSubsets]_vars

\* ---- deepValidate on two proofs that agree on everything but the bitrate.
\* The bitrates include pairs 5.00% and 5.01% apart, and pairs exactly 5% and
\* just over 5% away from their mean.
Bitrates == {9499, 9500, 10000, 10500, 10501, 10502, 11052, 11053}

InitBitrate ==
    /\ node = [n \in {"validator"} |->
                  [result |-> <<>>, conflictType |-> <<>>, subset |-> {},
                   subsetResult |-> <<>>]]
    /\ chan = <<>>
    /\ \E b1, b2 \in Bitrates :
           feed = [n \in {"validator"} |->
                      <<[kind |-> "deepValidate",
                         proofs |-> <<[PlainProof(1) EXCEPT !.bitrate = b1],
                                      [PlainProof(2) EXCEPT !.bitrate = b2]>>]>>]

SpecBitrate == InitBitrate /\ [][DeepValidate]_vars

\* Scenario "PrePrepare before the second proof": as SpecOneDown, but the
\* verifiers are slow towards the followers: the second proof of the task
\* reaches a follower only after the leader's PrePrepare has, so that every
\* follower buffers the PrePrepare first.
LateSecondProof(n) ==
    /\ SubmitProof(n)
    /\ n # LeaderId /\ Len(getProofsForTask(node[n], "A")) = 1
       => node[n].pendingPrePrepareMessages["A"] # <<>>

NextBuffered ==
    \/ \E n \in Nodes : LateSecondProof(n)
    \/ \E p \in Connections : Receive(p[1], p[2])

SpecBuffered == InitOneDown /\ [][NextBuffered]_vars

\* ---- startConsensus alone, called twice on an engine: that of the leader
\* or of a follower, idle between rounds or busy with a proposal.
ConsensusTypes == {"normal", "conflict"}

EngineProofs == {Proof("A", "v1", "h264", TRUE), Proof("B", "v2", "vp9", TRUE)}

EngineStates(n) ==
    {CommitteeNode(n, n = LeaderId, 4)} \cup
    {[CommitteeNode(n, n = LeaderId, 4) EXCEPT
          !.sequenceNumber = seq,
          !.completedSequences = 1 .. seq] : seq \in 1 .. MaxSeq - 1} \cup
    {[CommitteeNode(n, n = LeaderId, 4) EXCEPT
          !.state = st,
          !.sequenceNumber = seq,
          !.completedSequences = 1 .. (seq - 1),
          !.currentProposal = <<p>>,
          !.currentDigest = calculateHash(p),
          !.currentConsensusType = ct] :
              st \in {PrePrepared, Prepared, Committed}, seq \in 1 .. MaxSeq - 1,
              p \in EngineProofs, ct \in ConsensusTypes}

StartInputs ==
    {[kind |-> "startConsensus", proof |-> p, consensusType |-> ct] :
         p \in EngineProofs, ct \in ConsensusTypes}

InitStartConsensus ==
    \E n \in {LeaderId, "f1"} :
        /\ \E e \in EngineStates(n) : node = [m \in {n} |-> e]
        /\ chan = <<>>
        /\ \E in1, in2 \in StartInputs : feed = [m \in {n} |-> <<in1, in2>>]

StartConsensus ==
    \E n \in Nodes :
        /\ feed[n] # <<>>
        /\ node' = [node EXCEPT ![n] = startConsensus(@, Head(feed[n]).proof,
                                                      Head(feed[n]).consensusType)]
        /\ feed' = [feed EXCEPT ![n] = Tail(@)]
        /\ UNCHANGED chan

SpecStartConsensus == InitStartConsensus /\ [][StartConsensus]_vars

\* Scenario "two tasks at the leader": the proofs of task B reach the leader
\* while or after it runs the round of task A; no proofs disagree, so every
\* round is a first round.
SpecTwoTasks == InitTwoTasks /\ [][NextMessages]_vars

\* Scenario "duplicate proof": verifier v1 reports three times to each node,
\* the second time with another codec: once before the proof of v2 and once
\* after it.
DuplicateProofs ==
    <<TwoProofs[1], In("proof", Proof("A", "v1", "vp9", TRUE)), TwoProofs[2],
      TwoProofs[1]>>

InitDuplicate == Start(Live3, 4, [n \in Live3 |-> DuplicateProofs])

SpecDuplicate == InitDuplicate /\ [][NextMessages]_vars

\* Scenario "supplementary proofs of three verifiers": after the conflict of
\* v1 (H.264) and v2 (H.265) each node is sent the proof of another
\* supplementary verifier: one siding with v1 at the leader and f3, one
\* siding with v2 at f2, and one reporting VP9 at f1.
MixedSupplementary(n) ==
    CASE n = "f1" -> Proof("A", "v4", "vp9", TRUE)
      [] n = "f2" -> Proof("A", "v5", "h265", TRUE)
      [] OTHER -> Proof("A", "v3", "h264", TRUE)

InitMixed ==
    Start(Committee4, 4,
          [n \in Committee4 |-> Append(ConflictProofs, InAfterAll(MixedSupplementary(n)))])

SpecMixed == InitMixed /\ [][NextResolved]_vars

\* Scenario "race of the final round": leader, f1 and f2 are up, every
\* connection delivers at any moment, and once all three wait for the
\* supplementary proof the supplementary verifier reaches them in any order.
InitRace == Start(Live3, 4, [n \in Live3 |-> ResolvedAfterAll])

NextRace ==
    \/ \E n \in Nodes : SubmitProof(n)
    \/ \E n \in Nodes : Requested(n) /\ SubmitSupplementary(n)
    \/ \E p \in Connections : Receive(p[1], p[2])

SpecRace == InitRace /\ [][NextRace]_vars

\* A connection to dst carries a second time a PrePrepare, Prepare or Commit
\* of a slot for which dst has invoked onConsensusReached, sent again when
\* nothing else is in flight.
Redeliver(dst) ==
    /\ \E m \in UNION {{node[dst].prepareMessages[k][i] :
                             i \in 1 .. Len(node[dst].prepareMessages[k])}
                        \cup {node[dst].commitMessages[k][i] :
                                  i \in 1 .. Len(node[dst].commitMessages[k])}
                        : k \in Keys}
                  \cup {IssuedPrePrepare(i) : i \in 1 .. Len(node[LeaderId].issued)} :
           /\ m.nodeId # dst
           /\ \E i \in 1 .. Len(node[dst].reached) :
                  node[dst].reached[i].sequenceNumber = m.sequenceNumber
           /\ \A p \in Connections : chan[p] = <<>>
           /\ chan' = [chan EXCEPT ![<<m.nodeId, dst>>] = <<m>>]
    /\ UNCHANGED <<node, feed>>

NextRedeliver ==
    \/ \E n \in Nodes : SubmitProof(n)
    \/ \E p \in Connections : Receive(p[1], p[2])
    \/ \E n \in Nodes : Redeliver(n)

SpecRedeliver == InitOneDown /\ [][NextRedeliver]_vars

\* A conflict on task A that the supplementary proof resolves, and a task B
\* without conflict: the leader is given B after A's supplementary proof,
\* the followers hold B's proofs before it.  SubSeq(TwoTasks, 3, 4) are the
\* two proofs of B.
InitBusy ==
    Start(Live3, 4, [n \in Live3 |-> IF n = LeaderId
                                     THEN ResolvedAfterAll \o SubSeq(TwoTasks, 3, 4)
                                     ELSE ConflictProofs \o SubSeq(TwoTasks, 3, 4) \o
                                          <<InAfterAll(Proof("A", "v3", "h264", TRUE))>>])

\* The verifiers are prompt: a message is taken only when no node has a
\* proof waiting to be submitted.
NextBusy ==
    \/ \E n \in Nodes : SubmitProof(n)
    \/ \E n \in Nodes : Requested(n) /\ SubmitSupplementary(n)
    \/ \E p \in Connections :
           /\ \A n \in Nodes :
                  feed[n] # <<>>
                      => Head(feed[n]).kind = "supplementary" /\ ~Requested(n)
           /\ Receive(p[1], p[2])

SpecBusy == InitBusy /\ [][NextBusy]_vars

\* Task A, then task B whose second proof reaches the leader late; the slow
\* follower holds the two proofs of B and none of A.
InitLagging ==
    Start(Committee4, 4,
          [n \in Committee4 |->
               IF n = LeaderId
               THEN TwoProofs \o <<In("proof", Proof("B", "v1", "h264", TRUE)),
                                   In("proof", Proof("B", SlowVerifier, "h264", TRUE))>>
               ELSE IF n = SlowNode THEN SubSeq(TwoTasks, 3, 4)
               ELSE TwoTasks])

SpecLagging == InitLagging /\ [][NextRerun]_vars

\* ----------------------------------------------------------------- claims

Terminal == {Finalized, Failed, NeedsManualReview}

HoldsBothProofs(n, t) == Len(node[n].taskProofs[t]) >= 2

ConflictReached(n, t) ==
    \E i \in 1 .. Len(node[n].reached) :
        /\ node[n].reached[i].taskId = t
        /\ node[n].reached[i].consensusType = "conflict"

\* C1: the engine invokes onConsensusReached for a slot only when its Commit
\* set for that slot holds Commits of at least the threshold of distinct
\* senders, its own included.
C1_CommitQuorum ==
    \A n \in Nodes : \A i \in 1 .. Len(node[n].reached) :
        Cardinality(node[n].reached[i].slotSenders) >= node[n].consensusThreshold

\* C2: a step gives a task the state Finalized only if, in that step, the
\* node's engine invoked onConsensusReached with type normal for that task, and
\* it is onConsensusReached that assigned it.
C2_FinalizedOnlyByNormalConsensus ==
    [][\A n \in Nodes, t \in Tasks :
          \A i \in (Len(node[n].taskStatuses[t].path) + 1) ..
                   Len(node'[n].taskStatuses[t].path) :
              node'[n].taskStatuses[t].path[i][1] = Finalized
              => /\ node'[n].taskStatuses[t].path[i][2] = "onConsensusReached"
                 /\ \E j \in (Len(node[n].reached) + 1) .. Len(node'[n].reached) :
                        /\ node'[n].reached[j].taskId = t
                        /\ node'[n].reached[j].consensusType = "normal"]_vars

C2_Witness ==
    \E n \in Nodes :
        /\ StateOf(n, "A") = Finalized
        /\ \E j \in 1 .. Len(node[n].reached) :
               node[n].reached[j].consensusType = "normal"

\* Index of the last entry of path that gives the state st (0 if none).
LastOf(path, st) ==
    IF \E i \in 1 .. Len(path) : path[i][1] = st
    THEN CHOOSE i \in 1 .. Len(path) :
             /\ path[i][1] = st
             /\ \A j \in (i + 1) .. Len(path) : path[j][1] # st
    ELSE 0

\* C3: a task for which consensus of type conflict was reached at a node is
\* Finalized there only after it was AwaitingSupplementary and, later,
\* Validated.
C3_FinalizedOnlyAfterValidated ==
    \A n \in Nodes, t \in Tasks :
        ConflictReached(n, t) /\ StateOf(n, t) = Finalized
        => \E i, j \in 1 .. Len(PathOf(n, t)) :
               /\ i < j /\ j < LastOf(PathOf(n, t), Finalized)
               /\ PathOf(n, t)[i][1] = AwaitingSupplementary
               /\ PathOf(n, t)[j][1] = Validated

\* C4: happy path with four nodes: once both proofs are ingested everywhere
\* and every message is delivered, every node's task is Finalized and every
\* node's completedSequences holds the sequence number the leader gave the task.
C4_HappyPathFinalizes ==
    Quiescent
    => \A n \in Nodes :
           /\ StateOf(n, "A") = Finalized
           /\ \E i \in 1 .. Len(node[LeaderId].issued) :
                  /\ node[LeaderId].issued[i].taskId = "A"
                  /\ node[LeaderId].issued[i].seq \in node[n].completedSequences

\* C5: fault tolerance: with one node of four silent, once every message
\* among the three others is delivered, each node that holds both proofs has
\* its task Finalized.
C5_QuorumOfLiveNodesFinalizes ==
    Quiescent /\ Cardinality({n \in Nodes : HoldsBothProofs(n, "A")})
                     >= node[LeaderId].consensusThreshold
    => \A n \in Nodes : HoldsBothProofs(n, "A") => StateOf(n, "A") = Finalized

\* C6: insufficient proofs with four nodes (leader and one follower hold both
\* proofs, two followers one each): the task is Finalized at no node, and the
\* leader's task, once in Consensus, stays in Consensus.
C6_InsufficientNeverFinalizes ==
    /\ \A n \in Nodes : \A i \in 1 .. Len(PathOf(n, "A")) :
           PathOf(n, "A")[i][1] # Finalized
    /\ (\E i \in 1 .. Len(PathOf(LeaderId, "A")) :
            PathOf(LeaderId, "A")[i][1] = Consensus)
       => StateOf(LeaderId, "A") = Consensus

C6_Witness ==
    /\ Quiescent
    /\ StateOf(LeaderId, "A") = Consensus
    /\ StateOf("f1", "A") = Consensus
    /\ node["f1"].state = PrePrepared
    /\ \A n \in {"f2", "f3"} :
           /\ Len(node[n].taskProofs["A"]) = 1
           /\ node[n].pendingPrePrepareMessages["A"] # <<>>

Passed(n, t, st) == \E i \in 1 .. Len(PathOf(n, t)) : PathOf(n, t)[i][1] = st

Ingested(n, t) == Len(node[n].taskStatuses[t].supplementaryVerifierIds) > 0

\* C7: conflict resolved by majority: when the conflict round has left every
\* node in AwaitingSupplementary, the resolving supplementary proof has been
\* ingested at every node and every message is delivered, every node's task is
\* Finalized.
C7_ResolvedConflictFinalizes ==
    /\ Quiescent
    /\ \A n \in Nodes : Passed(n, "A", AwaitingSupplementary) /\ Ingested(n, "A")
    => \A n \in Nodes : StateOf(n, "A") = Finalized

\* C8: Finalized, Failed and NeedsManualReview are terminal: a task that was
\* given one of them is given no other state afterwards.
C8_TerminalStatesStay ==
    \A n \in Nodes, t \in Tasks : \A i \in 1 .. Len(PathOf(n, t)) :
        PathOf(n, t)[i][1] \in Terminal => i = Len(PathOf(n, t))

\* The edges of the task state machine; Conflict is a mark set on the way from
\* Validating or Consensus, not a state a task rests in.
Edges ==
    {<<Absent, Pending>>, <<Pending, Validating>>,
     <<Validating, Consensus>>, <<Validating, Rejected>>,
     <<Consensus, Finalized>>, <<Consensus, AwaitingSupplementary>>,
     <<AwaitingSupplementary, Validated>>, <<AwaitingSupplementary, Failed>>,
     <<AwaitingSupplementary, NeedsManualReview>>,
     <<Validated, Consensus>>}
    \cup {<<st, Expired>> : st \in {Pending, Validating, Verified, Consensus,
                                    Rejected, Conflict, Finalized,
                                    AwaitingSupplementary, NeedsManualReview,
                                    Validated, Failed}}

\* The states of path other than the mark Conflict, in order, after Absent.
RECURSIVE Rests(_)
Rests(path) ==
    IF path = <<>> THEN <<>>
    ELSE IF Head(path)[1] = Conflict THEN Rests(Tail(path))
    ELSE <<Head(path)[1]>> \o Rests(Tail(path))

\* C9: every change of a task's state at a node follows an edge of the task
\* state machine.
C9_TransitionsFollowStateMachine ==
    \A n \in Nodes, t \in Tasks :
        LET states == <<Absent>> \o Rests(PathOf(n, t))
        IN \A i \in 1 .. (Len(states) - 1) :
               <<states[i], states[i + 1]>> \in Edges

\* C10: at most one slot is active per node: a node issues a PrePrepare only
\* when its engine is idle and every round it started earlier has completed,
\* and its engine takes up a proposal or a sequence number only from the idle,
\* reset state.
C10_OneActiveSlot ==
    [][\A n \in Nodes :
          /\ Len(node'[n].issued) > Len(node[n].issued)
             => /\ Len(node'[n].issued) = Len(node[n].issued) + 1
                /\ node[n].state = Idle
                /\ \A i \in 1 .. Len(node[n].issued) :
                       node[n].issued[i].seq \in node[n].completedSequences
          /\ /\ node'[n].currentProposal # <<>>
             /\ \/ node'[n].currentProposal # node[n].currentProposal
                \/ node'[n].sequenceNumber # node[n].sequenceNumber
             => node[n].state = Idle /\ node[n].currentProposal = <<>>]_vars

C10_Witness ==
    /\ Len(node[LeaderId].issued) = 2
    /\ node[LeaderId].issued[1].taskId # node[LeaderId].issued[2].taskId
    /\ node[LeaderId].issued[1].seq \in node[LeaderId].completedSequences
    /\ node[LeaderId].currentProposal # <<>>
    /\ node[LeaderId].currentProposal[1].taskId = node[LeaderId].issued[2].taskId

\* C11: at the leader, a task that handleQoSProof made ready for consensus
\* (state Consensus, queued) leaves the consensus queue only with its round
\* started: once it is no longer queued, a PrePrepare was issued for it.
C11_QueuedTaskIsStarted ==
    \A t \in Tasks :
        /\ \E i \in 1 .. Len(PathOf(LeaderId, t)) :
               PathOf(LeaderId, t)[i] = <<Consensus, "handleQoSProof">>
        /\ \A i \in 1 .. Len(node[LeaderId].consensusQueue) :
               node[LeaderId].consensusQueue[i] # t
        => \E i \in 1 .. Len(node[LeaderId].issued) :
               node[LeaderId].issued[i].taskId = t

\* The fields of the PBFTEngine of node fields s.
Engine(s) ==
    <<s.state, s.viewNumber, s.sequenceNumber, s.currentProposal,
      s.currentDigest, s.currentConsensusType, s.prepareMessages,
      s.commitMessages, s.pendingPrepareMessages, s.pendingCommitMessages,
      s.completedSequences>>

\* The connection p delivers its oldest message in this step.
Delivers(p) == chan[p] # <<>> /\ chan'[p] = Tail(chan[p])

\* C12: a PrePrepare, Prepare or Commit whose sequence number is already in
\* the receiver's completedSequences leaves the receiver's engine as it was.
C12_CompletedSequenceFrozen ==
    [][\A p \in Connections :
          /\ Delivers(p)
          /\ Head(chan[p]).type \in {"prePrepare", "prepare", "commit"}
          /\ Head(chan[p]).sequenceNumber \in node[p[2]].completedSequences
          => Engine(node'[p[2]]) = Engine(node[p[2]])]_vars

\* The engine of n stays in its (view, seq) slot in this step.
SameSlot(n) ==
    /\ node'[n].viewNumber = node[n].viewNumber
    /\ node'[n].sequenceNumber = node[n].sequenceNumber

\* C13 as stated: while view and sequence number are unchanged the PBFT state
\* of a node never moves back to an earlier phase.
C13_StateNeverDecreases ==
    [][\A n \in Nodes : SameSlot(n) => node'[n].state >= node[n].state]_vars

\* C13: within one (view, seq) slot the PBFT state of a node moves forward
\* only, except for the reset to Idle made when the slot completes, in the
\* step that adds its sequence number to completedSequences and runs the
\* consensus callback.
C13_StateDecreasesOnlyOnCompletion ==
    [][\A n \in Nodes :
          SameSlot(n) /\ node'[n].state < node[n].state
          => /\ node'[n].state = Idle
             /\ node[n].sequenceNumber \notin node[n].completedSequences
             /\ node[n].sequenceNumber \in node'[n].completedSequences
             /\ Len(node'[n].reached) = Len(node[n].reached) + 1]_vars

\* A node is back in Idle in a slot it has completed.
C13_Witness ==
    \E n \in Nodes :
        /\ node[n].state = Idle
        /\ node[n].sequenceNumber \in node[n].completedSequences
        /\ node[n].reached # <<>>

\* C14: at every node and for every task, once a handler has run, proofCount
\* is the number of entries of verifierIds, whatever ordinary and
\* supplementary proofs were ingested.
C14_ProofCountMatchesVerifiers ==
    \A n \in Nodes : \A t \in Tasks :
        node[n].taskStatuses[t].proofCount =
            Len(node[n].taskStatuses[t].verifierIds)

\* A node has ingested two ordinary proofs and a supplementary one.
C14_Witness ==
    \E n \in Nodes : \E t \in Tasks :
        /\ Len(node[n].taskStatuses[t].supplementaryVerifierIds) = 1
        /\ Len(node[n].taskStatuses[t].verifierIds) = 3

\* C15: at every node and for every task, verifierIds holds no verifier id
\* twice, also when the supplementary proof carries the verifierId of one of
\* the original proofs.
C15_VerifierIdsDistinct ==
    \A n \in Nodes : \A t \in Tasks :
        \A i, j \in 1 .. Len(node[n].taskStatuses[t].verifierIds) :
            node[n].taskStatuses[t].verifierIds[i] =
                node[n].taskStatuses[t].verifierIds[j] => i = j

\* C16: whenever the leader has invoked startFinalConsensus for a task, its
\* ready set for the task (ack senders and the leader itself) had at least
\* as many members as the quorum of the configured committee size.
C16_FinalRoundNeedsReadyQuorum ==
    \A i \in 1 .. Len(node[LeaderId].finals) :
        Cardinality(node[LeaderId].finals[i].readyNodes) >=
            node[LeaderId].consensusThreshold

\* n has ingested a supplementary proof of t that moved the task to Validated.
Accepted(n, t) ==
    /\ Ingested(n, t)
    /\ \E i \in 1 .. Len(PathOf(n, t)) :
           PathOf(n, t)[i] = <<Validated, "handleSupplementaryProof">>

\* C17: in the step in which the leader starts the final round of a task, at
\* least a quorum of nodes, and every node of the leader's ready set, has
\* already ingested and accepted the supplementary proof of the task.
C17_FinalRoundAfterQuorumIngested ==
    [][Len(node'[LeaderId].finals) > Len(node[LeaderId].finals)
       => LET final == node'[LeaderId].finals[Len(node'[LeaderId].finals)]
          IN /\ \A m \in final.readyNodes : Accepted(m, final.taskId)
             /\ Cardinality({m \in Nodes : Accepted(m, final.taskId)}) >=
                    node[LeaderId].consensusThreshold]_vars

\* The timer of task t fires at node n in this step.
TimerFires(n, t) == node'[n].timeouts[t] < node[n].timeouts[t]

\* C18: the supplementary-timeout check changes a task only if the task is
\* still in AwaitingSupplementary with no supplementary verifier recorded, and
\* then it sets NeedsManualReview and records the timeout reason; otherwise
\* it changes nothing, and running it once more changes nothing either.
C18_TimeoutCheckGuarded ==
    [][\A n \in Nodes : \A t \in Tasks :
          TimerFires(n, t)
          => LET before == [node[n] EXCEPT !.timeouts[t] = @ - 1]
                 status == node[n].taskStatuses[t]
                 after == node'[n].taskStatuses[t]
             IN /\ chan' = chan
                /\ [node'[n] EXCEPT !.taskStatuses[t] = status] = before
                /\ IF status.state = AwaitingSupplementary
                      /\ Len(status.supplementaryVerifierIds) = 0
                   THEN /\ after.state = NeedsManualReview
                        /\ after.timeoutReason
                        /\ [after EXCEPT !.state = status.state,
                                         !.path = status.path,
                                         !.timeoutReason = status.timeoutReason]
                               = status
                   ELSE after = status
                /\ checkSupplementaryTimeout(node'[n], t) = node'[n]]_vars

\* One node's timer has sent its task to manual review, another node's timer
\* has fired after the supplementary proof was ingested.
C18_Witness ==
    \E n, m \in Nodes : \E t \in Tasks :
        /\ StateOf(n, t) = NeedsManualReview
        /\ node[n].taskStatuses[t].timeoutReason
        /\ node[m].taskStatuses[t].supplementaryRequested
        /\ node[m].timeouts[t] = 0
        /\ Ingested(m, t)
        /\ ~node[m].taskStatuses[t].timeoutReason

\* Node n takes an ordinary proof that fails quick-validate in this step.
TakesBadProof(n) ==
    /\ feed'[n] # feed[n]
    /\ Head(feed[n]).kind = "proof"
    /\ ~Head(feed[n]).proof.ok

\* C19: an ordinary proof that fails quick-validate is dropped: the step that
\* ingests it leaves every task record, every stored proof, the consensus
\* queue and the engine of the node as they were, and sends no message.
C19_BadProofDropped ==
    [][\A n \in Nodes : TakesBadProof(n) => node' = node /\ chan' = chan]_vars

\* Some node has taken its bad proof and both good ones, and holds two proofs
\* of the task.
C19_Witness ==
    \E n \in Nodes :
        /\ feed[n] = <<>>
        /\ Len(node[n].taskProofs["A"]) = 2
        /\ node[n].taskStatuses["A"].proofCount = 2

\* C20: resolveWithSupplementaryProof, given two conflicting original proofs
\* and a supplementary proof, tallies the codec over the three: if one codec
\* occurs at least twice the result is valid, resolved by majority, with that
\* codec as majority value, its verifiers as reliable and the others as
\* unreliable; if the three codecs differ the result asks for manual review.
C20_TallyIncludesSupplementary ==
    LET in == Head(feed["validator"])
        all == Append(in.originalProofs, in.proof)
    IN node["validator"].resolvedResult # <<>> /\ Len(in.originalProofs) = 2
       => LET r == node["validator"].resolvedResult[1]
          IN IF \E c \in CodecValues : CountOf(all, c) >= 2
             THEN LET c == CHOOSE c \in CodecValues : CountOf(all, c) >= 2
                  IN /\ r.isValid
                     /\ r.resolvedBy = "majority"
                     /\ r.majorityValue = c
                     /\ r.reliableVerifiers = VerifiersOf(all, c, TRUE)
                     /\ r.unreliableVerifiers = VerifiersOf(all, c, FALSE)
             ELSE ~r.isValid /\ r.needsManualReview

\* C21: deep-validate is monotone under taking subsets: when it succeeds on a
\* set of proofs, it succeeds on every subset of at least two of them.
C21_DeepValidateMonotone ==
    /\ node["validator"].result # <<>>
    /\ node["validator"].subsetResult # <<>>
    /\ node["validator"].result[1].isValid
    => node["validator"].subsetResult[1].isValid

\* The two bitrates given to deepValidate, and the outcome once it has run.
Bitrate(i) == Head(feed["validator"]).proofs[i].bitrate

Validated2 == node["validator"].result # <<>>

FailsWithScoreConflict ==
    /\ ~node["validator"].result[1].isValid
    /\ node["validator"].result[1].hasConflict
    /\ node["validator"].conflictType = <<"score">>

OwnCommitAppended(n, k) ==
    /\ n \notin Senders(node[n].commitMessages[k])
    /\ n \in Senders(node'[n].commitMessages[k])

\* C23: in the step in which a node becomes Prepared and appends its own
\* Commit, every Commit it had buffered for the slot enters its Commit set,
\* and no sender is in that set twice.
C23_BufferedCommitsDrained ==
    [][\A n \in Nodes : \A k \in Keys :
          OwnCommitAppended(n, k)
          => /\ Senders(node[n].pendingCommitMessages[k]) \subseteq
                    Senders(node'[n].commitMessages[k])
             /\ Cardinality(Senders(node'[n].commitMessages[k])) =
                    Len(node'[n].commitMessages[k])]_vars

\* Node n appends its own Prepare to its Prepare set of slot k in this step.
OwnPrepareAppended(n, k) ==
    Len(SelectSeq(node'[n].prepareMessages[k], LAMBDA m : m.nodeId = n)) >
        Len(SelectSeq(node[n].prepareMessages[k], LAMBDA m : m.nodeId = n))

\* C24: in the step in which a node processes the PrePrepare of a slot and
\* appends its own Prepare, every Prepare it had buffered for the slot enters
\* its Prepare set, the buffer is left empty and no sender is in the set
\* twice; the buffer is emptied in no other step.
C24_BufferedPreparesDrained ==
    [][\A n \in Nodes : \A k \in Keys :
          /\ OwnPrepareAppended(n, k)
             => /\ Senders(node[n].pendingPrepareMessages[k]) \subseteq
                       Senders(node'[n].prepareMessages[k])
                /\ node'[n].pendingPrepareMessages[k] = <<>>
                /\ Cardinality(Senders(node'[n].prepareMessages[k])) =
                       Len(node'[n].prepareMessages[k])
          /\ Len(node'[n].pendingPrepareMessages[k]) <
                 Len(node[n].pendingPrepareMessages[k])
             => OwnPrepareAppended(n, k)]_vars

\* The messages node n hands to its connections in this step.
Emitted(n) ==
    UNION {{chan'[<<n, q>>][i] : i \in Len(chan[<<n, q>>]) + 1 .. Len(chan'[<<n, q>>])} :
               q \in Nodes \ {n}}

\* A PrePrepare arrives on connection p and passes the filter of
\* onMessageReceived, so that processPrePrepareMessage takes it.
TakesPrePrepare(p) ==
    /\ Delivers(p)
    /\ Head(chan[p]).type = "prePrepare"
    /\ \/ node[p[2]].currentConsensusTaskId = NoTask
       \/ node[p[2]].currentConsensusTaskId = Head(chan[p]).taskId

IngestsSecondProof(n, t) ==
    /\ feed[n] # <<>>
    /\ feed'[n] = Tail(feed[n])
    /\ Head(feed[n]).kind = "proof"
    /\ Len(getProofsForTask(node[n], t)) = 1
    /\ Len(getProofsForTask(node'[n], t)) = 2

C27_StartConsensusGuarded ==
    [][\A n \in Nodes :
          LET s == node[n]
              r == node'[n]
              in == Head(feed[n])
          IN IF s.isLeader /\ s.state = Idle
             THEN /\ r.ret = <<Msg("prePrepare", in.consensusType, s.viewNumber,
                                   s.sequenceNumber + 1, n, in.proof.taskId,
                                   calculateHash(in.proof), <<in.proof>>)>>
                  /\ r.sequenceNumber = s.sequenceNumber + 1
                  /\ r.currentProposal = <<in.proof>>
                  /\ r.currentDigest = calculateHash(in.proof)
                  /\ r.currentConsensusType = in.consensusType
                  /\ r.state = PrePrepared
             ELSE /\ r.ret = <<>>
                  /\ r.sequenceNumber = s.sequenceNumber
                  /\ r.currentProposal = s.currentProposal
                  /\ r.currentDigest = s.currentDigest
                  /\ r.currentConsensusType = s.currentConsensusType
                  /\ r.state = s.state]_vars

\* The leader's idle engine has taken the first call and refused the second.
C27_Witness ==
    \E n \in Nodes :
        /\ feed[n] = <<>>
        /\ Len(node[n].issued) = 1
        /\ node[n].state = PrePrepared
        /\ node[n].ret = <<>>

\* C28: the rounds the leader has started are, in order, those of the tasks
\* it enqueued first, and once its queue is empty and its engine idle every
\* task enqueued had its round started: the k-th PrePrepare issued is for the
\* k-th task enqueued.
C28_IssuedInEnqueueOrder ==
    LET s == node[LeaderId]
    IN /\ \A k \in 1 .. Len(s.issued) :
              /\ k <= Len(s.enqueued)
              /\ s.issued[k].taskId = s.enqueued[k]
       /\ s.state = Idle /\ s.consensusQueue = <<>>
          => Len(s.issued) = Len(s.enqueued)

\* C29: in every Prepare set and every Commit set of every node no sender
\* occurs twice, the node itself included, so that the length compared with
\* the threshold is a number of distinct voters.
C29_OneVotePerSender ==
    \A n \in Nodes : \A k \in Keys :
        /\ Cardinality(Senders(node[n].prepareMessages[k])) =
               Len(node[n].prepareMessages[k])
        /\ Cardinality(Senders(node[n].commitMessages[k])) =
               Len(node[n].commitMessages[k])

\* Node n takes, in this step, an ordinary proof of a verifier whose id is
\* already in verifierIds of the task.
TakesDuplicateProof(n) ==
    /\ feed[n] # <<>>
    /\ feed'[n] = Tail(feed[n])
    /\ Head(feed[n]).kind = "proof"
    /\ LET proof == Head(feed[n]).proof
       IN \E i \in 1 .. Len(node[n].taskStatuses[proof.taskId].verifierIds) :
              node[n].taskStatuses[proof.taskId].verifierIds[i] = proof.verifierId

\* C30: an ordinary proof of a verifier already recorded for the task changes
\* nothing at the node that takes it (task status, proofCount, verifierIds,
\* stored proofs, consensus queue and engine included) and sends no message.
C30_DuplicateProofDropped ==
    [][\A n \in Nodes : TakesDuplicateProof(n) => node' = node /\ chan' = chan]_vars

\* A node has taken all four reports and holds one proof of each verifier,
\* that of v1 being the first one.
C30_Witness ==
    \E n \in Nodes :
        /\ feed[n] = <<>>
        /\ getProofsForTask(node[n], "A") = <<TwoProofs[1].proof, TwoProofs[2].proof>>
        /\ node[n].taskStatuses["A"].verifierIds = <<"v1", "v2">>

\* Node n takes a supplementary proof in this step.
TakesSupplementary(n) ==
    /\ feed[n] # <<>>
    /\ feed'[n] = Tail(feed[n])
    /\ Head(feed[n]).kind = "supplementary"

\* C31: when a node whose task is in AwaitingSupplementary with two original
\* proofs of different codecs takes a valid supplementary proof, the handler
\* sets the task to Validated if the proof's codec is that of one of the
\* originals, and to NeedsManualReview if the three codecs differ.
C31_SupplementaryOutcome ==
    [][\A n \in Nodes :
          LET proof == Head(feed[n]).proof
              status == node[n].taskStatuses[proof.taskId]
              originals == getProofsForTask(node[n], proof.taskId)
              path == node'[n].taskStatuses[proof.taskId].path
          IN /\ TakesSupplementary(n)
             /\ status.state = AwaitingSupplementary
             /\ Len(originals) = 2
             /\ originals[1].codec # originals[2].codec
             /\ quickValidate(proof)
             => /\ Len(path) > Len(status.path)
                /\ path[Len(status.path) + 1] =
                       <<IF proof.codec \in Codecs(originals) THEN Validated
                         ELSE NeedsManualReview, "handleSupplementaryProof">>]_vars

\* One node was sent to manual review by a supplementary proof with a third
\* codec, two others were validated by proofs siding with either original.
C31_Witness ==
    \E n, m, o \in Nodes :
        /\ <<NeedsManualReview, "handleSupplementaryProof">> \in
               {node[n].taskStatuses["A"].path[i] :
                    i \in 1 .. Len(node[n].taskStatuses["A"].path)}
        /\ getProofsForTask(node[m], "A")[3].codec = "h264"
        /\ getProofsForTask(node[o], "A")[3].codec = "h265"
        /\ \A x \in {m, o} :
               <<Validated, "handleSupplementaryProof">> \in
                   {node[x].taskStatuses["A"].path[i] :
                        i \in 1 .. Len(node[x].taskStatuses["A"].path)}

\* No SupplementaryReady or SupplementaryAck is in flight.
ReadyAndAckDelivered ==
    \A p \in Connections : \A i \in 1 .. Len(chan[p]) :
        chan[p][i].type \notin {"SupplementaryReady", "SupplementaryAck"}

\* The leader has issued a second PrePrepare for task t: that of its final round.
FinalRoundStarted(t) ==
    /\ \E i \in 1 .. Len(node[LeaderId].finals) : node[LeaderId].finals[i].taskId = t
    /\ Len(SelectSeq(node[LeaderId].issued, LAMBDA e : e.taskId = t)) >= 2

\* C32: whatever the order of ingestion and of the ready, ack and PrePrepare
\* messages was, once the leader and at least threshold - 1 followers have
\* accepted the supplementary proof of a task and no ready or ack message is
\* in flight, the leader has started the final round of the task.
C32_FinalRoundStarts ==
    \A t \in Tasks :
        /\ ReadyAndAckDelivered
        /\ Accepted(LeaderId, t)
        /\ Cardinality({n \in Nodes \ {LeaderId} : Accepted(n, t)}) >=
               node[LeaderId].consensusThreshold - 1
        => FinalRoundStarted(t)

\* The leader and enough followers have accepted the supplementary proof, no
\* ready or ack message is in flight, and the final round was started with a
\* ready set of quorum size.
C32_Witness ==
    /\ FinalRoundStarted("A")
    /\ ReadyAndAckDelivered
    /\ Cardinality({n \in Nodes \ {LeaderId} : Accepted(n, "A")}) >=
           node[LeaderId].consensusThreshold - 1
    /\ Cardinality(node[LeaderId].finals[1].readyNodes) >=
           node[LeaderId].consensusThreshold

\* C34: agreement.  Any two invocations of onConsensusReached for the same
\* sequence number, at whatever nodes, are for the same proposal digest and
\* the same consensusType; and at each node a task is set to Finalized by
\* the callback only on an invocation of type normal, and to
\* AwaitingSupplementary only on one of type conflict, so one round cannot
\* finalize a task at one node and leave it awaiting the supplementary
\* proof at another.
ReachedOf(n) == {node[n].reached[i] : i \in 1 .. Len(node[n].reached)}

C34_Agreement ==
    /\ \A n \in Nodes, m \in Nodes :
           \A a \in ReachedOf(n), b \in ReachedOf(m) :
               a.sequenceNumber = b.sequenceNumber
                   => /\ a.digest = b.digest
                      /\ a.consensusType = b.consensusType
    /\ \A n \in Nodes, t \in Tasks :
           /\ Passed(n, t, Finalized)
                  => \E a \in ReachedOf(n) :
                         a.taskId = t /\ a.consensusType = "normal"
           /\ Passed(n, t, AwaitingSupplementary)
                  => \E a \in ReachedOf(n) :
                         a.taskId = t /\ a.consensusType = "conflict"

\* Two nodes completed the conflict round and the final round of task A,
\* each under one sequence number.
C34_Witness ==
    \E n \in Nodes : \E m \in Nodes \ {n} :
        /\ \E a \in ReachedOf(n), b \in ReachedOf(m) :
               /\ a.sequenceNumber = b.sequenceNumber
               /\ a.consensusType = "conflict"
        /\ \E a \in ReachedOf(n), b \in ReachedOf(m) :
               /\ a.sequenceNumber = b.sequenceNumber
               /\ a.consensusType = "normal"
        /\ StateOf(n, "A") = Finalized
        /\ StateOf(m, "A") = Finalized

\* C35: a node is Prepared only with Prepare messages of at least the
\* threshold of senders in the set of its own current view and sequence
\* number, all carrying the digest of its current proposal; and each
\* invocation of onConsensusReached was decided by counting the Commit set of
\* the completed slot itself, which holds Commits of at least the threshold
\* of senders carrying the slot's digest.
VotersFor(msgs, digest) ==
    {msgs[i].nodeId : i \in {j \in 1 .. Len(msgs) : msgs[j].digest = digest}}

C35_VotesOfOwnSlot ==
    \A n \in Nodes :
        /\ node[n].state = Prepared
               => Cardinality(VotersFor(
                      node[n].prepareMessages[<<node[n].viewNumber,
                                                node[n].sequenceNumber>>],
                      node[n].currentDigest)) >= node[n].consensusThreshold
        /\ \A e \in ReachedOf(n) :
               /\ e.countedKey = <<e.viewNumber, e.sequenceNumber>>
               /\ Cardinality(VotersFor(
                      node[n].commitMessages[<<e.viewNumber, e.sequenceNumber>>],
                      e.digest)) >= node[n].consensusThreshold

C37_FinalRoundNotLost ==
    \A t \in Tasks :
        /\ StateOf(LeaderId, t) = Validated
               => node[LeaderId].pendingSupplementaryConsensus[t] # <<>>
        /\ (/\ Quiescent
            /\ Accepted(LeaderId, t)
            /\ Cardinality({n \in Nodes \ {LeaderId} : Accepted(n, t)})
                   >= node[LeaderId].consensusThreshold - 1)
               => StateOf(LeaderId, t) # Validated

\* C38: a follower that holds a buffered PrePrepare of one task and two
\* proofs of another task handles a PrePrepare, Prepare or Commit of that
\* other task as it would without the buffered one: its engine is left as
\* the handlers leave it when no task filters the message.
BuffersAnother(n, t) ==
    \E a \in Tasks \ {t} :
        \/ node[n].pendingPrePrepareMessages[a] # <<>>
        \/ node[n].pendingFinalPrePrepareMessages[a] # <<>>

C38_OtherTaskNotDropped ==
    [][\A p \in Connections :
          LET n == p[2]
              message == Head(chan[p])
          IN (/\ Delivers(p)
              /\ n # LeaderId
              /\ message.type \in {"prePrepare", "prepare", "commit"}
              /\ BuffersAnother(n, message.taskId)
              /\ Len(node[n].taskProofs[message.taskId]) >= 2)
             => Engine(node'[n]) =
                    Engine(onMessageReceived(
                               [node[n] EXCEPT !.currentConsensusTaskId = NoTask],
                               message))]_vars

\* C39: while a node's engine is PrePrepared or Prepared, the node's
\* currentConsensusTaskId is the task of the engine's current proposal.
C39_CurrentTaskIsProposalTask ==
    \A n \in Nodes :
        node[n].state \in {PrePrepared, Prepared}
            => /\ node[n].currentProposal # <<>>
               /\ node[n].currentConsensusTaskId = node[n].currentProposal[1].taskId

====
